---- MODULE Spec2Model ----
(***************************************************************************)
(* Model of the storage replication client of memgraph                     *)
(* (src/src/storage/v2/replication/replication_client.cpp), of the main    *)
(* instance's commit path and durability files that drive it, of the       *)
(* replica that answers its RPCs, and of the MVCC storage with its         *)
(* garbage collector.                                                      *)
(***************************************************************************)
EXTENDS Integers, Sequences, FiniteSets, TLC

(***************************************************************************)
(* Bounds of the model.                                                    *)
(***************************************************************************)
\* Number of write transactions the main instance commits.
MaxCommits == 2
\* Number of RPCs the network lets fail with RpcFailedException.
MaxRpcFailures == 1
\* Number of snapshots the main instance creates.
MaxSnapshots == 1
\* Number of transactions the storage accessors begin.
MaxTransactions == 3
\* Number of vertices the transactions create.
MaxVertices == 1
\* Number of times a transaction advances its command.
MaxCommands == 1
\* WAL files finalized in the histories RecoverySpec starts from.
MaxFinalized == 3
\* Largest commit timestamp in those histories.
MaxTimestamp == 4
\* Largest pointer value handed to a PreviousPtr.
MaxPointer == 19
\* Number of vertices of the graph an accessor adds edges to.
MaxGraphVertices == 3
\* Largest number of edges one accessor creates.
MaxEdges == 3
\* Largest integer held by a PropertyValue; doubles go up to it in halves.
MaxInt == 2
\* Largest character of a string, with the characters numbered from 1.
MaxChar == 2
\* Longest string and longest list held by a PropertyValue.
MaxLength == 2
\* Threads that use one SpinLock.
MaxThreads == 4

(***************************************************************************)
(* Program constants.                                                      *)
(***************************************************************************)
\* storage::kTimestampInitialId, the commit timestamp of an empty storage.
kTimestampInitialId == 0

READY == "READY"
REPLICATING == "REPLICATING"
RECOVERY == "RECOVERY"
INVALID == "INVALID"
ReplicaState == {READY, REPLICATING, RECOVERY, INVALID}

SYNC == "SYNC"
ASYNC == "ASYNC"
ReplicationMode == {SYNC, ASYNC}

\* std::optional values that are empty.
NoStream == [open |-> FALSE]
NoWal == [exists |-> FALSE]
NoSeq == -1
NoSnapshot == -1

VARIABLES
  \* ---- Storage of the MAIN instance ----
  last_commit_timestamp_,  \* storage_->last_commit_timestamp_
  epoch_id_,               \* storage_->epoch_id_
  epoch_history_,          \* storage_->epoch_history_: Seq of <<epoch, end ts>>
  wal_file_,               \* storage_->wal_file_: the WAL being written
  wal_seq_num_,            \* sequence number of the next WAL file
  wal_files,               \* finalized WAL files on disk, ascending seq_num
  snapshot_files,          \* start timestamps of the snapshots on disk
  snapshots_made,          \* number of snapshots created so far
  m_pc,                    \* where the committing thread is
  m_ts,                    \* commit timestamp of the commit in progress
  \* ---- ReplicationClient ----
  constructed,             \* the client has been constructed and registered
  replica_state_,          \* replica_state_
  replica_stream_,         \* replica_stream_ (std::optional<ReplicaStream>)
  mode_,                   \* mode_
  timeout_,                \* timeout_.has_value()
  timeout_dispatcher_,     \* timeout_dispatcher_.has_value()
  td_active,               \* timeout_dispatcher_->active
  td_finished,             \* timeout_dispatcher_->finished
  thread_pool_,            \* thread_pool_: FIFO queue of tasks, one worker
  timeout_pool,            \* timeout_dispatcher_->timeout_pool: queued tasks
  pc,                      \* where the constructor and the thread_pool_ worker are
  w_rc,                    \* worker local: replica_commit / response timestamp
  w_steps,                 \* worker local: recovery steps still to run
  hs_response,             \* per thread: the heartbeat response it holds
  config_timeout,          \* config.timeout.has_value()
  tt_pc,                   \* where the timeout_pool worker is
  failures,                \* RPC failures so far
  crashed,                 \* a CHECK failed: the process aborted
  \* ---- The replica that answers the RPCs ----
  r_commit,                \* replica's last commit timestamp
  r_epoch,                 \* replica's epoch id
  r_log,                   \* commit timestamps the replica holds, as applied
  \* ---- MVCC storage: the objects, the transactions, the GC ----
  vertices,                \* gid -> the vertex and its delta chain, head first
  transactions,            \* transaction id -> the transaction
  gc_pc,                   \* where the GC run is
  gc_watermark,            \* the watermark the GC run computed
  gc_todo,                 \* vertices the GC run has still to visit
  untruncated,             \* history: the vertices as they were without GC
  committed_history,       \* history: the committed state after each commit
  \* ---- Objects of the storage's value types ----
  previous_ptr,            \* a PreviousPtr, with the last call made on it
  recovered,               \* what recovery from the durability files gave
  graph,                   \* vertices with their edges, as one accessor sees them
  compared,                \* three PropertyValues and how they compare
  spinlock,                \* a SpinLock and the threads that use it
  \* ---- storage_->file_retainer_ ----
  file_retainer_,          \* the files locked and the deletions put off
  \* ---- History: what the last step did ----
  ev

mainVars == <<last_commit_timestamp_, epoch_id_, epoch_history_, wal_file_,
              wal_seq_num_, wal_files, snapshot_files, snapshots_made,
              m_pc, m_ts>>
clientVars == <<constructed, replica_state_, replica_stream_, mode_, timeout_,
                timeout_dispatcher_, td_active, td_finished, thread_pool_,
                timeout_pool, pc, w_rc, w_steps, hs_response, config_timeout,
                tt_pc, failures, crashed>>
replicaVars == <<r_commit, r_epoch, r_log>>
mvccVars == <<vertices, transactions, gc_pc, gc_watermark, gc_todo,
              untruncated, committed_history>>
valueRest == <<previous_ptr, recovered, graph, compared, spinlock>>
valueVars == <<valueRest, file_retainer_>>
vars == <<mainVars, clientVars, replicaVars, mvccVars, valueVars, ev>>

(***************************************************************************)
(* Recovery steps (the RecoveryStep variant).                              *)
(***************************************************************************)
RecoverySnapshot(ts) == [type |-> "RecoverySnapshot", ts |-> ts]
RecoveryWals(wals) == [type |-> "RecoveryWals", wals |-> wals]
RecoveryCurrentWal(seq) == [type |-> "RecoveryCurrentWal", seq |-> seq]
RecoveryFinalSnapshot(ts) == [type |-> "RecoveryFinalSnapshot", ts |-> ts]

\* Largest element of a non-empty set of integers.
SetMax(S) == CHOOSE x \in S : \A y \in S : y <= x

\* The latest snapshot: snapshot_files sorted, then back().
LatestSnapshot(snapshots) ==
  IF snapshots = {} THEN NoSnapshot ELSE SetMax(snapshots)

\* SubSeq from index i to the end.
Tail_From(s, i) == SubSeq(s, i, Len(s))

\* A mutation of FindWalChain: the WAL the replica holds in full is not left
\* out.
RECURSIVE FindWalChainWhole(_, _, _, _)
FindWalChainWhole(wals, replica_commit, i, previous_seq_num) ==
  IF i = 0 THEN 0
  ELSE IF previous_seq_num - wals[i].seq_num > 1 THEN 0
  ELSE IF replica_commit >= wals[i].from_timestamp \/ wals[i].seq_num = 0
    THEN i
  ELSE FindWalChainWhole(wals, replica_commit, i - 1, wals[i].seq_num)

\* The loop that walks the finalized WALs from the newest one back and looks for
\* the first WAL of a sequential chain covering replica_commit.  The result is
\* the forward index of the first WAL to send, or 0 when no chain is found.
RECURSIVE FindWalChain(_, _, _, _)
FindWalChain(wals, replica_commit, i, previous_seq_num) ==
  IF i = 0 THEN 0
  ELSE IF previous_seq_num - wals[i].seq_num > 1 THEN 0
  ELSE IF replica_commit >= wals[i].from_timestamp \/ wals[i].seq_num = 0
    THEN IF replica_commit >= wals[i].to_timestamp THEN i + 1 ELSE i
  ELSE FindWalChain(wals, replica_commit, i - 1, wals[i].seq_num)

\* A mutation of FirstWalAfterSnapshot: the step back to the WAL before the
\* snapshot is left out.
FirstWalAfterSnapshotOnly(wals, snapshot) ==
  LET hits == {j \in 1..Len(wals) : snapshot < wals[j].to_timestamp}
  IN IF hits = {} THEN Len(wals) + 1
     ELSE CHOOSE x \in hits : \A y \in hits : x <= y

\* The first loop of the snapshot branch: the index of the first WAL that holds
\* a commit newer than the snapshot (Len + 1 when there is none), moved back by
\* one when that WAL starts after the snapshot; 0 stands for the failed CHECK.
FirstWalAfterSnapshot(wals, snapshot) ==
  LET hits == {j \in 1..Len(wals) : snapshot < wals[j].to_timestamp}
  IN IF hits = {} THEN Len(wals) + 1
     ELSE LET j == CHOOSE x \in hits : \A y \in hits : x <= y
          IN IF snapshot < wals[j].from_timestamp THEN j - 1 ELSE j

CurrentWalStep(current_wal_seq_num) ==
  IF current_wal_seq_num # NoSeq
    THEN <<RecoveryCurrentWal(current_wal_seq_num)>> ELSE <<>>

\* A mutation of CurrentWalOrFinalSnapshot: the snapshot file is sent.
CurrentWalOrFinalSnapshotFile(latest_snapshot, current_wal_seq_num) ==
  IF current_wal_seq_num # NoSeq
    THEN [crash |-> FALSE, steps |-> <<RecoveryCurrentWal(current_wal_seq_num)>>]
  ELSE IF latest_snapshot = NoSnapshot
    THEN [crash |-> TRUE, steps |-> <<>>]
  ELSE [crash |-> FALSE, steps |-> <<RecoverySnapshot(latest_snapshot)>>]

\* Either the current WAL or, when there is none, the timestamp of the latest
\* snapshot (CHECK(latest_snapshot) guards the second).
CurrentWalOrFinalSnapshot(latest_snapshot, current_wal_seq_num) ==
  IF current_wal_seq_num # NoSeq
    THEN [crash |-> FALSE, steps |-> <<RecoveryCurrentWal(current_wal_seq_num)>>]
  ELSE IF latest_snapshot = NoSnapshot
    THEN [crash |-> TRUE, steps |-> <<>>]
  ELSE [crash |-> FALSE, steps |-> <<RecoveryFinalSnapshot(latest_snapshot)>>]

SnapshotAndWals(wals, latest_snapshot, current_wal_seq_num) ==
  IF latest_snapshot = NoSnapshot THEN [crash |-> TRUE, steps |-> <<>>]
  ELSE LET j == FirstWalAfterSnapshot(wals, latest_snapshot)
           recovery_wal_files ==
             IF j > Len(wals) THEN <<wals[Len(wals)]>> ELSE Tail_From(wals, j)
       IN IF j = 0 THEN [crash |-> TRUE, steps |-> <<>>]
          ELSE [crash |-> FALSE,
                steps |-> <<RecoverySnapshot(latest_snapshot),
                            RecoveryWals(recovery_wal_files)>>
                          \o CurrentWalStep(current_wal_seq_num)]

\* GetRecoverySteps: wals are the finalized WAL files (GetWalFiles leaves the
\* current one out), latest_snapshot the newest snapshot's start timestamp.
GetRecoverySteps(replica_commit, wals, latest_snapshot, current_wal_seq_num) ==
  IF Len(wals) = 0
    THEN CurrentWalOrFinalSnapshot(latest_snapshot, current_wal_seq_num)
  ELSE IF wals[Len(wals)].to_timestamp <= replica_commit
    THEN CurrentWalOrFinalSnapshot(latest_snapshot, current_wal_seq_num)
  ELSE LET first == FindWalChain(wals, replica_commit, Len(wals),
                                 wals[Len(wals)].seq_num)
       IN IF first # 0
            THEN [crash |-> FALSE,
                  steps |-> <<RecoveryWals(Tail_From(wals, first))>>
                            \o CurrentWalStep(current_wal_seq_num)]
          ELSE SnapshotAndWals(wals, latest_snapshot, current_wal_seq_num)

(***************************************************************************)
(* The file retainer: the files the locker of a RecoverReplica iteration   *)
(* holds, and the files whose deletion was put off because they are held.  *)
(***************************************************************************)
SnapshotPath(ts) == [kind |-> "snapshot", id |-> ts]
WalPath(wal) == [kind |-> "wal", id |-> wal.seq_num]
WalPaths(wals) == {WalPath(wals[i]) : i \in 1..Len(wals)}

NewFileRetainer == [locked |-> {}, files_for_deletion |-> {}]

\* file_retainer_.AddLocker(): a locker that holds no file yet.
AddLocker(retainer) == [retainer EXCEPT !.locked = {}]

\* locker_acc.AddFile for each of the paths.
AddFiles(retainer, paths) == [retainer EXCEPT !.locked = @ \cup paths]

\* DeleteFile for each of the paths: a file that is locked stays on disk and
\* is put on the list of the files to delete later.
DeleteFiles(retainer, paths) ==
  [retainer EXCEPT !.files_for_deletion = @ \cup (paths \cap retainer.locked)]

\* The locker goes out of scope: its files are released and the deletions
\* that were put off are made.
ReleaseLocker(retainer) == NewFileRetainer

\* A mutation of AddedSnapshot: the snapshot file is not added to the locker.
AddedSnapshotNone(latest_snapshot, current_wal_seq_num) == {}

\* What CurrentWalOrFinalSnapshot adds to the locker: the latest snapshot when
\* there is no current WAL.
AddedSnapshot(latest_snapshot, current_wal_seq_num) ==
  IF current_wal_seq_num # NoSeq \/ latest_snapshot = NoSnapshot THEN {}
  ELSE {SnapshotPath(latest_snapshot)}

\* What SnapshotAndWals adds to the locker.
AddedSnapshotAndWals(wals, latest_snapshot) ==
  IF latest_snapshot = NoSnapshot THEN {}
  ELSE LET j == FirstWalAfterSnapshot(wals, latest_snapshot)
       IN IF j = 0 THEN {SnapshotPath(latest_snapshot)}
          ELSE {SnapshotPath(latest_snapshot)}
                 \cup WalPaths(Tail_From(wals, j))
                 \cup (IF j > Len(wals) THEN {WalPath(wals[Len(wals)])}
                       ELSE {})

\* The paths GetRecoverySteps passes to locker_acc.AddFile, branch by branch.
AddedFiles(replica_commit, wals, latest_snapshot, current_wal_seq_num) ==
  IF Len(wals) = 0
    THEN AddedSnapshot(latest_snapshot, current_wal_seq_num)
  ELSE IF wals[Len(wals)].to_timestamp <= replica_commit
    THEN AddedSnapshot(latest_snapshot, current_wal_seq_num)
  ELSE LET first == FindWalChain(wals, replica_commit, Len(wals),
                                 wals[Len(wals)].seq_num)
       IN IF first # 0 THEN WalPaths(Tail_From(wals, first))
          ELSE AddedSnapshotAndWals(wals, latest_snapshot)

(***************************************************************************)
(* The replica (the RPC server side).  Each operator gives the replica's   *)
(* state after the request, as a record [commit, epoch, log].              *)
(***************************************************************************)
Replica == [commit |-> r_commit, epoch |-> r_epoch, log |-> r_log]

\* The commit timestamps from..to, ascending, that are newer than commit.
RECURSIVE NewerCommits(_, _, _)
NewerCommits(from, to, commit) ==
  IF from > to THEN <<>>
  ELSE IF from > commit
    THEN <<from>> \o NewerCommits(from + 1, to, commit)
  ELSE NewerCommits(from + 1, to, commit)

\* Loading one WAL file: the replica applies the commits it does not hold yet.
\* A WAL without a complete transaction (from_timestamp 0) changes nothing.
ReplicaLoadWal(r, wal, epoch) ==
  IF wal.from_timestamp = 0 \/ wal.to_timestamp <= r.commit
    THEN [r EXCEPT !.epoch = epoch]
  ELSE [commit |-> wal.to_timestamp, epoch |-> epoch,
        log |-> r.log \o NewerCommits(wal.from_timestamp, wal.to_timestamp,
                                      r.commit)]

RECURSIVE ReplicaLoadWals(_, _, _)
ReplicaLoadWals(r, wals, epoch) ==
  IF Len(wals) = 0 THEN r
  ELSE ReplicaLoadWals(ReplicaLoadWal(r, Head(wals), epoch), Tail(wals), epoch)

\* Loading a snapshot replaces the replica's data by the snapshot's: every
\* commit up to the snapshot's start timestamp.
ReplicaLoadSnapshot(r, snapshot, epoch) ==
  [commit |-> snapshot, epoch |-> epoch, log |-> [i \in 1..snapshot |-> i]]

\* OnlySnapshot: the replica advances its commit timestamp to the snapshot's.
ReplicaOnlySnapshot(r, snapshot, epoch) ==
  [r EXCEPT !.commit = IF snapshot > r.commit THEN snapshot ELSE r.commit,
            !.epoch = epoch]

\* AppendDeltas: the transaction is applied only when the stream was opened
\* with the commit timestamp the replica is at.
ReplicaAcceptsDeltas(r, stream) ==
  stream.previous_commit_timestamp = r.commit /\ stream.tx_end

ReplicaAppendDeltas(r, stream, epoch) ==
  IF ReplicaAcceptsDeltas(r, stream)
    THEN [commit |-> stream.final_commit_timestamp, epoch |-> epoch,
          log |-> Append(r.log, stream.final_commit_timestamp)]
  ELSE [r EXCEPT !.epoch = epoch]

SetReplica(r) ==
  /\ r_commit' = r.commit
  /\ r_epoch' = r.epoch
  /\ r_log' = r.log

(***************************************************************************)
(* History variable: what the last step did.                               *)
(***************************************************************************)
Ev(op, from, rpc, sched, resp) ==
  [op |-> op, from |-> from, rpc |-> rpc, sched |-> sched, resp |-> resp]

\* Tasks of thread_pool_.
ReconnectTask == [type |-> "reconnect", replica_commit |-> 0]
FinalizeTask == [type |-> "finalize", replica_commit |-> 0]
FinalizeNotifyTask == [type |-> "finalize_notify", replica_commit |-> 0]
ResetDispatcherTask == [type |-> "reset_dispatcher", replica_commit |-> 0]
RecoverTask(replica_commit) ==
  [type |-> "recover", replica_commit |-> replica_commit]

\* The network may fail an RPC (rpc::RpcFailedException).
MayFail == failures < MaxRpcFailures

EngineLockFree == m_pc = "idle"

\* The threads that run the handshake: the constructor's and the worker of
\* thread_pool_.
Ctor == "ctor"
Worker == "worker"

\* Values a read through a dangling reference to a uint64_t may give.
DanglingValues == 0..MaxCommits

(***************************************************************************)
(* ReplicationClient: the functions the committing thread calls.  Each is  *)
(* an action on replica_state_, replica_stream_, thread_pool_, failures,   *)
(* crashed, the replica and ev; the caller says what happens to the rest.  *)
(***************************************************************************)
\* A mutation of HandleRpcFailure: the reconnect task is not queued.
HandleRpcFailureDropped(pool) == pool

\* HandleRpcFailure: queue the reconnect task.
HandleRpcFailure(pool) == Append(pool, ReconnectTask)

\* ReplicaStream::ReplicaStream
ReplicaStream(previous_commit_timestamp, current_seq_num) ==
  [open |-> TRUE, aborted |-> FALSE,
   previous_commit_timestamp |-> previous_commit_timestamp,
   current_seq_num |-> current_seq_num,
   deltas |-> 0, tx_end |-> FALSE, final_commit_timestamp |-> 0]

\* case RECOVERY: return.
StartInRecovery ==
  /\ UNCHANGED <<replica_state_, replica_stream_, thread_pool_, failures,
                 crashed>>
  /\ ev' = Ev("StartTransactionReplication", RECOVERY, "none", "none", -1)

\* A mutation of StartInReplicating: the recovery is queued at once, which the
\* comment in the code warns against.
StartInReplicatingQueues ==
  /\ replica_state_' = RECOVERY
  /\ thread_pool_' = Append(thread_pool_, RecoverTask(last_commit_timestamp_))
  /\ UNCHANGED <<replica_stream_, failures, crashed>>
  /\ ev' = Ev("StartTransactionReplication", REPLICATING, "none", "recover", -1)

\* case REPLICATING: the transaction is missed, the state becomes RECOVERY.
StartInReplicating ==
  /\ replica_state_' = RECOVERY
  /\ UNCHANGED <<replica_stream_, thread_pool_, failures, crashed>>
  /\ ev' = Ev("StartTransactionReplication", REPLICATING, "none", "none", -1)

\* case INVALID: HandleRpcFailure.
StartInInvalid ==
  /\ thread_pool_' = HandleRpcFailure(thread_pool_)
  /\ UNCHANGED <<replica_state_, replica_stream_, failures, crashed>>
  /\ ev' = Ev("StartTransactionReplication", INVALID, "none", "reconnect", -1)

\* case READY: CHECK(!replica_stream_), then the stream is opened.
StartInReady(current_wal_seq_num) ==
  IF replica_stream_.open
    THEN \* CHECK(!replica_stream_) fails
         /\ crashed' = TRUE
         /\ UNCHANGED <<replica_state_, replica_stream_, thread_pool_, failures>>
         /\ ev' = Ev("StartTransactionReplication", READY, "none", "crash", -1)
  ELSE \/ /\ replica_stream_' = ReplicaStream(last_commit_timestamp_,
                                               current_wal_seq_num)
          /\ replica_state_' = REPLICATING
          /\ UNCHANGED <<thread_pool_, failures, crashed>>
          /\ ev' = Ev("StartTransactionReplication", READY, "opened", "none", -1)
       \/ /\ MayFail
          /\ failures' = failures + 1
          /\ replica_state_' = INVALID
          /\ thread_pool_' = HandleRpcFailure(thread_pool_)
          /\ UNCHANGED <<replica_stream_, crashed>>
          /\ ev' = Ev("StartTransactionReplication", READY, "failed", "reconnect", -1)

StartTransactionReplication(current_wal_seq_num) ==
  /\ UNCHANGED replicaVars
  /\ CASE replica_state_ = RECOVERY -> StartInRecovery
       [] replica_state_ = REPLICATING -> StartInReplicating
       [] replica_state_ = INVALID -> StartInInvalid
       [] replica_state_ = READY -> StartInReady(current_wal_seq_num)

\* The callbacks IfStreamingTransaction is given.
AppendDelta(stream, final_commit_timestamp) ==
  [stream EXCEPT !.deltas = @ + 1,
                 !.final_commit_timestamp = final_commit_timestamp]

AppendTransactionEnd(stream, final_commit_timestamp) ==
  [stream EXCEPT !.tx_end = TRUE,
                 !.final_commit_timestamp = final_commit_timestamp]

Callback(name, stream, final_commit_timestamp) ==
  IF name = "AppendDelta" THEN AppendDelta(stream, final_commit_timestamp)
  ELSE AppendTransactionEnd(stream, final_commit_timestamp)

\* A mutation of StreamingState: the guard tests for the wrong state.
StreamingStateRecovery == RECOVERY

\* The guard of IfStreamingTransaction: the callback runs in this state only.
StreamingState == REPLICATING

IfStreamingTransaction(callback, final_commit_timestamp) ==
  /\ UNCHANGED replicaVars
  /\ IF replica_state_ # StreamingState
       THEN /\ UNCHANGED <<replica_state_, replica_stream_, thread_pool_,
                           failures, crashed>>
            /\ ev' = Ev("IfStreamingTransaction", replica_state_, "none", "none", -1)
     ELSE IF ~replica_stream_.open
       THEN \* *replica_stream_ of an empty optional
            /\ crashed' = TRUE
            /\ UNCHANGED <<replica_state_, replica_stream_, thread_pool_, failures>>
            /\ ev' = Ev("IfStreamingTransaction", replica_state_, "none", "crash", -1)
     ELSE \/ /\ ~replica_stream_.aborted
             /\ replica_stream_' = Callback(callback, replica_stream_,
                                            final_commit_timestamp)
             /\ UNCHANGED <<replica_state_, thread_pool_, failures, crashed>>
             /\ ev' = Ev("IfStreamingTransaction", replica_state_, "sent", "none", -1)
          \/ /\ replica_stream_.aborted \/ MayFail
             /\ failures' = IF replica_stream_.aborted THEN failures
                            ELSE failures + 1
             /\ replica_state_' = INVALID
             /\ thread_pool_' = HandleRpcFailure(thread_pool_)
             /\ UNCHANGED <<replica_stream_, crashed>>
             /\ ev' = Ev("IfStreamingTransaction", replica_state_, "failed", "reconnect", -1)

\* What the lambda queued on a non-success response passes to RecoverReplica:
\* it captures the local `response` by reference and runs after the function
\* has returned, so the read is one through a dangling reference.
RecoverArgument(response_commit) == DanglingValues

\* A mutation of NeedsRecovery: the state RECOVERY a missed transaction left
\* is not looked at.
NeedsRecoveryOnFailure(success, state) == ~success

\* A mutation of NeedsRecovery: every response sends the client to RECOVERY.
NeedsRecoveryAlways(success, state) == TRUE

\* Does the finalize response send the client to RECOVERY?
NeedsRecovery(success, state) == ~success \/ state = RECOVERY

\* pool is thread_pool_ as the function finds it: without the task that runs
\* the function when the worker runs it.
FinalizeTransactionReplicationInternal(pool) ==
  IF ~replica_stream_.open
    THEN \* CHECK(replica_stream_) fails
         /\ crashed' = TRUE
         /\ thread_pool_' = pool
         /\ UNCHANGED <<replica_state_, replica_stream_, failures, replicaVars>>
         /\ ev' = Ev("FinalizeTransactionReplicationInternal", replica_state_,
                     "none", "crash", -1)
  ELSE \/ \* the response arrives
          /\ ~replica_stream_.aborted
          /\ LET success == ReplicaAcceptsDeltas(Replica, replica_stream_)
                 r == ReplicaAppendDeltas(Replica, replica_stream_, epoch_id_)
             IN /\ SetReplica(r)
                /\ replica_stream_' = NoStream
                /\ UNCHANGED <<failures, crashed>>
                /\ IF NeedsRecovery(success, replica_state_)
                     THEN /\ replica_state_' = RECOVERY
                          /\ \E arg \in RecoverArgument(r.commit) :
                               thread_pool_' = Append(pool, RecoverTask(arg))
                          /\ ev' = Ev("FinalizeTransactionReplicationInternal",
                                      replica_state_,
                                      IF success THEN "success" ELSE "non-success",
                                      "recover", r.commit)
                   ELSE /\ replica_state_' = READY
                        /\ thread_pool_' = pool
                        /\ ev' = Ev("FinalizeTransactionReplicationInternal",
                                    replica_state_, "success", "none", r.commit)
       \/ \* rpc::RpcFailedException; the replica may have applied the
          \* transaction before the connection broke
          /\ replica_stream_.aborted \/ MayFail
          /\ failures' = IF replica_stream_.aborted THEN failures
                         ELSE failures + 1
          /\ \/ UNCHANGED replicaVars
             \/ /\ ReplicaAcceptsDeltas(Replica, replica_stream_)
                /\ SetReplica(ReplicaAppendDeltas(Replica, replica_stream_,
                                                  epoch_id_))
          /\ replica_stream_' = NoStream
          /\ replica_state_' = INVALID
          /\ thread_pool_' = HandleRpcFailure(pool)
          /\ UNCHANGED crashed
          /\ ev' = Ev("FinalizeTransactionReplicationInternal", replica_state_,
                      "failed", "reconnect", -1)

\* The variables the client functions above leave to their caller.
clientRest == <<constructed, mode_, timeout_, timeout_dispatcher_, td_active,
                td_finished, timeout_pool, pc, w_rc, w_steps, hs_response,
                config_timeout, tt_pc>>
\* The variables the client functions above set.
clientCore == <<replica_state_, replica_stream_, thread_pool_, failures,
                crashed>>

(***************************************************************************)
(* The committing thread of the MAIN instance (Storage::Accessor::Commit   *)
(* and Storage::AppendToWal): it holds engine_lock_ from the start of the  *)
(* commit to its end, which is what m_pc # "idle" stands for.              *)
(***************************************************************************)
NewWalFile(seq_num) ==
  [exists |-> TRUE, seq_num |-> seq_num, from_timestamp |-> 0,
   to_timestamp |-> 0, flushing |-> TRUE]

\* A finalized WAL file, as GetWalFiles reads it back.
WalInfo(wal) ==
  [seq_num |-> wal.seq_num, from_timestamp |-> wal.from_timestamp,
   to_timestamp |-> wal.to_timestamp]

\* The commit begins: the WAL file is created if there is none and every
\* client is told the transaction starts.
MainStartTransaction ==
  /\ ~crashed
  /\ m_pc = "idle"
  /\ last_commit_timestamp_ < MaxCommits
  /\ LET wal == IF wal_file_.exists THEN wal_file_ ELSE NewWalFile(wal_seq_num_)
     IN /\ wal_file_' = wal
        /\ wal_seq_num_' = IF wal_file_.exists THEN wal_seq_num_
                           ELSE wal_seq_num_ + 1
        /\ IF constructed
             THEN StartTransactionReplication(wal.seq_num)
           ELSE /\ UNCHANGED <<clientCore, replicaVars>>
                /\ ev' = Ev("Commit", replica_state_, "none", "none", -1)
  /\ m_ts' = last_commit_timestamp_ + 1
  /\ m_pc' = IF crashed' THEN m_pc ELSE "started"
  /\ UNCHANGED <<last_commit_timestamp_, epoch_id_, epoch_history_, wal_files,
                 snapshot_files, snapshots_made, clientRest>>
  /\ UNCHANGED <<mvccVars, valueVars>>

\* A delta is written to the WAL and streamed to the replica.
MainAppendDelta ==
  /\ ~crashed
  /\ m_pc = "started"
  /\ IF constructed
       THEN IfStreamingTransaction("AppendDelta", m_ts)
     ELSE /\ UNCHANGED <<clientCore, replicaVars>>
          /\ ev' = Ev("Commit", replica_state_, "none", "none", -1)
  /\ m_pc' = IF crashed' THEN m_pc ELSE "appended"
  /\ UNCHANGED <<last_commit_timestamp_, epoch_id_, epoch_history_, wal_file_,
                 wal_seq_num_, wal_files, snapshot_files, snapshots_made, m_ts,
                 clientRest>>
  /\ UNCHANGED <<mvccVars, valueVars>>

\* The transaction end is written: the WAL now holds the whole transaction.
\* FinalizeWalFile may close the WAL file (size- or count-triggered); closing
\* it flushes it, which has to wait while its flushing is disabled.
MainAppendTransactionEnd ==
  /\ ~crashed
  /\ m_pc = "appended"
  /\ LET wal == [wal_file_ EXCEPT
                   !.from_timestamp = IF @ = 0 THEN m_ts ELSE @,
                   !.to_timestamp = m_ts]
     IN \/ /\ wal_file_' = wal
           /\ UNCHANGED wal_files
        \/ /\ wal_file_.flushing
           /\ wal_file_' = NoWal
           /\ wal_files' = Append(wal_files, WalInfo(wal))
  /\ IF constructed
       THEN IfStreamingTransaction("AppendTransactionEnd", m_ts)
     ELSE /\ UNCHANGED <<clientCore, replicaVars>>
          /\ ev' = Ev("Commit", replica_state_, "none", "none", -1)
  /\ m_pc' = IF crashed' THEN m_pc ELSE "ended"
  /\ UNCHANGED <<last_commit_timestamp_, epoch_id_, epoch_history_,
                 wal_seq_num_, snapshot_files, snapshots_made, m_ts,
                 clientRest>>
  /\ UNCHANGED <<mvccVars, valueVars>>

(***************************************************************************)
(* FinalizeTransactionReplication, one action per branch.                  *)
(***************************************************************************)
\* A mutation of FinalizingState: the guard tests for the wrong state.
FinalizingStateReady == READY

\* The state in which FinalizeTransactionReplication does something.
FinalizingState == REPLICATING

FinalizeNotStreaming ==
  /\ ~crashed
  /\ m_pc = "ended"
  /\ ~constructed \/ replica_state_ # FinalizingState
  /\ m_pc' = "finalized"
  /\ ev' = Ev("FinalizeTransactionReplication", replica_state_, "none", "none", -1)
  /\ UNCHANGED <<last_commit_timestamp_, epoch_id_, epoch_history_, wal_file_,
                 wal_seq_num_, wal_files, snapshot_files, snapshots_made, m_ts,
                 clientCore, clientRest, replicaVars>>
  /\ UNCHANGED <<mvccVars, valueVars>>

FinalizeAsync ==
  /\ ~crashed
  /\ m_pc = "ended"
  /\ constructed /\ replica_state_ = FinalizingState
  /\ mode_ = ASYNC
  /\ thread_pool_' = Append(thread_pool_, FinalizeTask)
  /\ m_pc' = "finalized"
  /\ ev' = Ev("FinalizeTransactionReplication", replica_state_, "none", "finalize", -1)
  /\ UNCHANGED <<last_commit_timestamp_, epoch_id_, epoch_history_, wal_file_,
                 wal_seq_num_, wal_files, snapshot_files, snapshots_made, m_ts,
                 replica_state_, replica_stream_, failures, crashed,
                 clientRest, replicaVars>>
  /\ UNCHANGED <<mvccVars, valueVars>>

\* The timeout branch up to the wait on main_cv: WaitForTaskToFinish lets the
\* thread through once `finished` is set.
FinalizeWithTimeout ==
  /\ ~crashed
  /\ m_pc = "ended"
  /\ constructed /\ replica_state_ = FinalizingState
  /\ mode_ # ASYNC /\ timeout_
  /\ IF mode_ # SYNC \/ ~timeout_dispatcher_
       THEN \* one of the two CHECKs fails
            /\ crashed' = TRUE
            /\ UNCHANGED <<m_pc, td_active, thread_pool_, timeout_pool>>
            /\ ev' = Ev("FinalizeTransactionReplication", replica_state_, "none", "crash", -1)
     ELSE /\ td_finished
          /\ td_active' = TRUE
          /\ thread_pool_' = Append(thread_pool_, FinalizeNotifyTask)
          /\ timeout_pool' = timeout_pool + 1
          /\ m_pc' = "waiting"
          /\ UNCHANGED crashed
          /\ ev' = Ev("FinalizeTransactionReplication", replica_state_, "none",
                      "finalize_notify", -1)
  /\ UNCHANGED <<last_commit_timestamp_, epoch_id_, epoch_history_, wal_file_,
                 wal_seq_num_, wal_files, snapshot_files, snapshots_made, m_ts,
                 replica_state_, replica_stream_, failures, constructed,
                 mode_, timeout_, timeout_dispatcher_, td_finished, pc, w_rc,
                 w_steps, hs_response, config_timeout, tt_pc, replicaVars>>
  /\ UNCHANGED <<mvccVars, valueVars>>

\* The committing thread wakes once `active` is cleared, and demotes the replica
\* to ASYNC when the transaction is still being replicated.
FinalizeWake ==
  /\ ~crashed
  /\ m_pc = "waiting"
  /\ ~td_active
  /\ IF replica_state_ = REPLICATING
       THEN /\ mode_' = ASYNC
            /\ timeout_' = FALSE
            /\ thread_pool_' = Append(thread_pool_, ResetDispatcherTask)
            /\ ev' = Ev("FinalizeTransactionReplication", replica_state_, "none",
                        "reset_dispatcher", -1)
     ELSE /\ UNCHANGED <<mode_, timeout_, thread_pool_>>
          /\ ev' = Ev("FinalizeTransactionReplication", replica_state_, "none",
                      "none", -1)
  /\ m_pc' = "finalized"
  /\ UNCHANGED <<last_commit_timestamp_, epoch_id_, epoch_history_, wal_file_,
                 wal_seq_num_, wal_files, snapshot_files, snapshots_made, m_ts,
                 replica_state_, replica_stream_, failures, crashed,
                 constructed, timeout_dispatcher_, td_active, td_finished,
                 timeout_pool, pc, w_rc, w_steps, hs_response, config_timeout,
                 tt_pc, replicaVars>>
  /\ UNCHANGED <<mvccVars, valueVars>>

FinalizeInline ==
  /\ ~crashed
  /\ m_pc = "ended"
  /\ constructed /\ replica_state_ = FinalizingState
  /\ mode_ # ASYNC /\ ~timeout_
  /\ FinalizeTransactionReplicationInternal(thread_pool_)
  /\ m_pc' = IF crashed' THEN m_pc ELSE "finalized"
  /\ UNCHANGED <<last_commit_timestamp_, epoch_id_, epoch_history_, wal_file_,
                 wal_seq_num_, wal_files, snapshot_files, snapshots_made, m_ts,
                 clientRest>>
  /\ UNCHANGED <<mvccVars, valueVars>>

\* The commit ends: last_commit_timestamp_ is stored and engine_lock_ released.
MainCommitDone ==
  /\ ~crashed
  /\ m_pc = "finalized"
  /\ last_commit_timestamp_' = m_ts
  /\ m_pc' = "idle"
  /\ ev' = Ev("Commit", replica_state_, "none", "none", -1)
  /\ UNCHANGED <<epoch_id_, epoch_history_, wal_file_, wal_seq_num_, wal_files,
                 snapshot_files, snapshots_made, m_ts, clientCore, clientRest,
                 replicaVars>>
  /\ UNCHANGED <<mvccVars, valueVars>>

(***************************************************************************)
(* Durability of the MAIN instance.                                        *)
(***************************************************************************)
\* The finalized WALs a new snapshot leaves on disk: everything from the last
\* finalized WAL that holds a transaction from before the snapshot.
RetainedWals(wals, snapshot) ==
  LET before == {j \in 1..Len(wals) : wals[j].from_timestamp <= snapshot}
  IN IF before = {} THEN wals ELSE Tail_From(wals, SetMax(before))

CreateSnapshot ==
  /\ ~crashed
  /\ m_pc = "idle"
  /\ snapshots_made < MaxSnapshots
  /\ snapshot_files' = {last_commit_timestamp_}
  /\ snapshots_made' = snapshots_made + 1
  /\ wal_files' = RetainedWals(wal_files, last_commit_timestamp_)
  /\ file_retainer_' =
       DeleteFiles(file_retainer_,
                   {SnapshotPath(ts) :
                      ts \in snapshot_files \ {last_commit_timestamp_}}
                     \cup (WalPaths(wal_files)
                            \ WalPaths(RetainedWals(wal_files,
                                                    last_commit_timestamp_))))
  /\ ev' = Ev("CreateSnapshot", replica_state_, "none", "none", -1)
  /\ UNCHANGED <<last_commit_timestamp_, epoch_id_, epoch_history_, wal_file_,
                 wal_seq_num_, m_pc, m_ts, clientCore, clientRest, replicaVars>>
  /\ UNCHANGED <<mvccVars, valueRest>>

\* The instance got a new epoch id (a restart or a promotion to MAIN) before the
\* replica was registered: the old epoch goes to the history with the commit
\* timestamp it ended at.
NewEpoch ==
  /\ ~crashed
  /\ m_pc = "idle"
  /\ pc[Ctor] = "hs_start"
  /\ epoch_id_ = "e1"
  /\ epoch_id_' = "e2"
  /\ epoch_history_' = Append(epoch_history_, <<epoch_id_, last_commit_timestamp_>>)
  /\ ev' = Ev("NewEpoch", replica_state_, "none", "none", -1)
  /\ UNCHANGED <<last_commit_timestamp_, wal_file_, wal_seq_num_, wal_files,
                 snapshot_files, snapshots_made, m_pc, m_ts, clientCore,
                 clientRest, replicaVars>>
  /\ UNCHANGED <<mvccVars, valueVars>>

(***************************************************************************)
(* The handshake (InitializeClient under TryInitializeClient), run by the  *)
(* constructor and by the reconnect task.                                  *)
(***************************************************************************)
HsEnd(self) == IF self = Ctor THEN "hs_done" ELSE "idle"

\* The replica is registered with a history that is a prefix of the MAIN's.
Registrable(self) == self = Ctor => r_commit <= last_commit_timestamp_

\* The epoch is read under engine_lock_, the heartbeat is sent and answered.
HsHeartbeat(self) ==
  /\ ~crashed
  /\ pc[self] = "hs_start"
  /\ EngineLockFree
  /\ Registrable(self)
  /\ \/ /\ hs_response' = [hs_response EXCEPT
                             ![self] = [current_commit_timestamp |-> r_commit,
                                        epoch_id |-> r_epoch]]
        /\ pc' = [pc EXCEPT ![self] = "hs_align"]
        /\ UNCHANGED <<replica_state_, failures>>
        /\ ev' = Ev("Heartbeat", replica_state_, "success", "none", r_commit)
     \/ /\ MayFail
        /\ failures' = failures + 1
        /\ replica_state_' = INVALID
        /\ pc' = [pc EXCEPT ![self] = HsEnd(self)]
        /\ UNCHANGED hs_response
        /\ ev' = Ev("TryInitializeClient", replica_state_, "failed", "none", -1)
  /\ UNCHANGED <<mainVars, replicaVars, constructed, replica_stream_, mode_,
                 timeout_, timeout_dispatcher_, td_active, td_finished,
                 thread_pool_, timeout_pool, w_rc, w_steps, config_timeout,
                 tt_pc, crashed>>
  /\ UNCHANGED <<mvccVars, valueVars>>

\* The end timestamp the epoch history records for an epoch (the newest entry
\* of that epoch), or -1 when the history does not hold the epoch.
EpochEnd(history, epoch) ==
  LET hits == {i \in 1..Len(history) : history[i][1] = epoch}
  IN IF hits = {} THEN -1 ELSE history[SetMax(hits)][2]
\* A mutation of BranchingPoint: an epoch the history does not hold is let in.
BranchingPointKnownEpoch(response) ==
  /\ response.epoch_id # epoch_id_
  /\ response.current_commit_timestamp # kTimestampInitialId
  /\ EpochEnd(epoch_history_, response.epoch_id) \notin
       {-1, response.current_commit_timestamp}

\* Is there a branching point (std::optional branching_point has a value)?
BranchingPoint(response) ==
  /\ response.epoch_id # epoch_id_
  /\ response.current_commit_timestamp # kTimestampInitialId
  /\ EpochEnd(epoch_history_, response.epoch_id) # response.current_commit_timestamp
\* A mutation of UpToDate: a replica that is behind counts as up to date.
UpToDateBehind(current_commit_timestamp) ==
  current_commit_timestamp <= last_commit_timestamp_

\* Is the replica up to date with the MAIN?
UpToDate(current_commit_timestamp) ==
  current_commit_timestamp = last_commit_timestamp_

HsAlign(self) ==
  /\ ~crashed
  /\ pc[self] = "hs_align"
  /\ LET response == hs_response[self]
     IN IF BranchingPoint(response)
          THEN /\ UNCHANGED <<replica_state_, thread_pool_>>
               /\ ev' = Ev("InitializeClient", replica_state_, "success",
                           "branching", response.current_commit_timestamp)
        ELSE IF UpToDate(response.current_commit_timestamp)
          THEN /\ replica_state_' = READY
               /\ UNCHANGED thread_pool_
               /\ ev' = Ev("InitializeClient", replica_state_, "success",
                           "none", response.current_commit_timestamp)
        ELSE /\ replica_state_' = RECOVERY
             /\ thread_pool_' =
                  Append(thread_pool_,
                         RecoverTask(response.current_commit_timestamp))
             /\ ev' = Ev("InitializeClient", replica_state_, "success",
                         "recover", response.current_commit_timestamp)
  /\ pc' = [pc EXCEPT ![self] = HsEnd(self)]
  /\ UNCHANGED <<mainVars, replicaVars, constructed, replica_stream_, mode_,
                 timeout_, timeout_dispatcher_, td_active, td_finished,
                 timeout_pool, w_rc, w_steps, hs_response, config_timeout,
                 tt_pc, failures, crashed>>
  /\ UNCHANGED <<mvccVars, valueVars>>

\* A mutation of CtorFinish: the timeout is installed without its dispatcher.
CtorFinishNoDispatcher ==
  /\ ~crashed
  /\ pc[Ctor] = "hs_done"
  /\ IF config_timeout /\ replica_state_ # INVALID
       THEN /\ timeout_' = TRUE
            /\ UNCHANGED timeout_dispatcher_
     ELSE UNCHANGED <<timeout_, timeout_dispatcher_>>
  /\ constructed' = TRUE
  /\ pc' = [pc EXCEPT ![Ctor] = "done"]
  /\ ev' = Ev("ReplicationClient", replica_state_, "none", "none", -1)
  /\ UNCHANGED <<mainVars, replicaVars, clientCore, mode_, td_active,
                 td_finished, timeout_pool, w_rc, w_steps, hs_response,
                 config_timeout, tt_pc>>
  /\ UNCHANGED <<mvccVars, valueVars>>

\* The end of the constructor: the timeout and its dispatcher are installed.
CtorFinish ==
  /\ ~crashed
  /\ pc[Ctor] = "hs_done"
  /\ IF config_timeout /\ replica_state_ # INVALID
       THEN /\ timeout_' = TRUE
            /\ timeout_dispatcher_' = TRUE
     ELSE UNCHANGED <<timeout_, timeout_dispatcher_>>
  /\ constructed' = TRUE
  /\ pc' = [pc EXCEPT ![Ctor] = "done"]
  /\ ev' = Ev("ReplicationClient", replica_state_, "none", "none", -1)
  /\ UNCHANGED <<mainVars, replicaVars, clientCore, mode_, td_active,
                 td_finished, timeout_pool, w_rc, w_steps, hs_response,
                 config_timeout, tt_pc>>
  /\ UNCHANGED <<mvccVars, valueVars>>

(***************************************************************************)
(* The worker of thread_pool_: it takes the tasks in the order they were   *)
(* added and runs one at a time.                                           *)
(***************************************************************************)
WorkerTakes(type) ==
  /\ ~crashed
  /\ pc[Worker] = "idle"
  /\ Len(thread_pool_) > 0
  /\ Head(thread_pool_).type = type

\* The reconnect task begins: rpc_client_->Abort() breaks the stream that is
\* open, then TryInitializeClient runs.
WReconnect ==
  /\ WorkerTakes("reconnect")
  /\ thread_pool_' = Tail(thread_pool_)
  /\ replica_stream_' = IF replica_stream_.open
                          THEN [replica_stream_ EXCEPT !.aborted = TRUE]
                        ELSE replica_stream_
  /\ pc' = [pc EXCEPT ![Worker] = "hs_start"]
  /\ ev' = Ev("ReconnectTask", replica_state_, "abort", "none", -1)
  /\ UNCHANGED <<mainVars, replicaVars, constructed, replica_state_, mode_,
                 timeout_, timeout_dispatcher_, td_active, td_finished,
                 timeout_pool, w_rc, w_steps, hs_response, config_timeout,
                 tt_pc, failures, crashed>>
  /\ UNCHANGED <<mvccVars, valueVars>>

\* The task FinalizeTransactionReplication adds in ASYNC mode.
WFinalize ==
  /\ WorkerTakes("finalize")
  /\ FinalizeTransactionReplicationInternal(Tail(thread_pool_))
  /\ UNCHANGED <<mainVars, clientRest>>
  /\ UNCHANGED <<mvccVars, valueVars>>

\* The task of the timeout branch: finalize, then clear `active` and notify the
\* committing thread.
WFinalizeNotify ==
  /\ WorkerTakes("finalize_notify")
  /\ FinalizeTransactionReplicationInternal(Tail(thread_pool_))
  /\ td_active' = IF crashed' THEN td_active ELSE FALSE
  /\ UNCHANGED <<mainVars, constructed, mode_, timeout_, timeout_dispatcher_,
                 td_finished, timeout_pool, pc, w_rc, w_steps, hs_response,
                 config_timeout, tt_pc>>
  /\ UNCHANGED <<mvccVars, valueVars>>

\* The task that destroys the timeout dispatcher once the replica was demoted;
\* the destructor joins the timeout thread.
WResetDispatcher ==
  /\ WorkerTakes("reset_dispatcher")
  /\ tt_pc = "idle" /\ timeout_pool = 0
  /\ thread_pool_' = Tail(thread_pool_)
  /\ timeout_dispatcher_' = FALSE
  /\ ev' = Ev("ResetDispatcherTask", replica_state_, "none", "none", -1)
  /\ UNCHANGED <<mainVars, replicaVars, constructed, replica_state_,
                 replica_stream_, mode_, timeout_, td_active, td_finished,
                 timeout_pool, pc, w_rc, w_steps, hs_response, config_timeout,
                 tt_pc, failures, crashed>>
  /\ UNCHANGED <<mvccVars, valueVars>>

(***************************************************************************)
(* RecoverReplica, run by the worker.                                      *)
(***************************************************************************)
WRecoverReplica ==
  /\ WorkerTakes("recover")
  /\ thread_pool_' = Tail(thread_pool_)
  /\ w_rc' = Head(thread_pool_).replica_commit
  /\ w_steps' = <<>>
  /\ pc' = [pc EXCEPT ![Worker] = "rec_get"]
  /\ ev' = Ev("RecoverReplica", replica_state_, "none", "none",
              Head(thread_pool_).replica_commit)
  /\ UNCHANGED <<mainVars, replicaVars, constructed, replica_state_,
                 replica_stream_, mode_, timeout_, timeout_dispatcher_,
                 td_active, td_finished, timeout_pool, hs_response,
                 config_timeout, tt_pc, failures, crashed>>
  /\ UNCHANGED <<mvccVars, valueVars>>

CurrentWalSeqNum == IF wal_file_.exists THEN wal_file_.seq_num ELSE NoSeq

\* The head of the loop: GetRecoverySteps, which takes engine_lock_ to read the
\* current WAL's sequence number.
WGetRecoverySteps ==
  /\ ~crashed
  /\ pc[Worker] = "rec_get"
  /\ EngineLockFree
  /\ LET res == GetRecoverySteps(w_rc, wal_files, LatestSnapshot(snapshot_files),
                                 CurrentWalSeqNum)
     IN IF res.crash
          THEN /\ crashed' = TRUE
               /\ UNCHANGED <<w_steps, pc>>
               /\ ev' = Ev("GetRecoverySteps", replica_state_, "none", "crash", w_rc)
        ELSE /\ w_steps' = res.steps
             /\ pc' = [pc EXCEPT ![Worker] = "rec_step"]
             /\ UNCHANGED crashed
             /\ ev' = Ev("GetRecoverySteps", replica_state_, "none", "none", w_rc)
  /\ file_retainer_' =
       AddFiles(AddLocker(file_retainer_),
                AddedFiles(w_rc, wal_files, LatestSnapshot(snapshot_files),
                           CurrentWalSeqNum))
  /\ UNCHANGED <<mainVars, replicaVars, constructed, replica_state_,
                 replica_stream_, mode_, timeout_, timeout_dispatcher_,
                 td_active, td_finished, thread_pool_, timeout_pool, w_rc,
                 hs_response, config_timeout, tt_pc, failures>>
  /\ UNCHANGED <<mvccVars, valueRest>>

\* What the replica holds after a recovery step's files have reached it.
ReplicaAfterStep(step) ==
  CASE step.type = "RecoverySnapshot" ->
         ReplicaLoadSnapshot(Replica, step.ts, epoch_id_)
    [] step.type = "RecoveryWals" ->
         ReplicaLoadWals(Replica, step.wals, epoch_id_)
    [] step.type = "RecoveryFinalSnapshot" ->
         ReplicaOnlySnapshot(Replica, step.ts, epoch_id_)

\* The catch block of the loop over the steps: the loop goes on with the next
\* step.
RecoveryRpcFailed(op) ==
  /\ failures' = failures + 1
  /\ replica_state_' = INVALID
  /\ thread_pool_' = HandleRpcFailure(thread_pool_)
  /\ ev' = Ev(op, replica_state_, "failed", "reconnect", -1)

\* The response of the replica to a recovery RPC: it reports the commit
\* timestamp it is at after the request.
TransferResponse(r) == [success |-> TRUE, current_commit_timestamp |-> r.commit]

\* replica_commit after a step: TransferOnlySnapshot's response is used only
\* when it reports success, the other responses always.
ReplicaCommitAfter(step, response, replica_commit) ==
  IF step.type = "RecoveryFinalSnapshot" /\ ~response.success
    THEN replica_commit
  ELSE response.current_commit_timestamp

\* A step that transfers files (or the snapshot timestamp) in one RPC.
WTransferStep ==
  /\ ~crashed
  /\ pc[Worker] = "rec_step"
  /\ Len(w_steps) > 0
  /\ Head(w_steps).type # "RecoveryCurrentWal"
  /\ LET step == Head(w_steps)
         r == ReplicaAfterStep(step)
     IN \/ /\ SetReplica(r)
           /\ w_rc' = ReplicaCommitAfter(step, TransferResponse(r), w_rc)
           /\ UNCHANGED <<replica_state_, thread_pool_, failures>>
           /\ ev' = Ev(step.type, replica_state_, "success", "none", r.commit)
        \/ /\ MayFail
           /\ RecoveryRpcFailed(step.type)
           /\ SetReplica(r) \/ UNCHANGED replicaVars
           /\ UNCHANGED w_rc
  /\ w_steps' = Tail(w_steps)
  /\ UNCHANGED <<mainVars, constructed, replica_stream_, mode_, timeout_,
                 timeout_dispatcher_, td_active, td_finished, timeout_pool,
                 pc, hs_response, config_timeout, tt_pc, crashed>>
  /\ UNCHANGED <<mvccVars, valueVars>>

\* The current-WAL step up to DisableFlushing, under engine_lock_: the step
\* does nothing when the WAL that was seen is no longer the current one.
SameCurrentWal(current_wal_seq_num) ==
  wal_file_.exists /\ wal_file_.seq_num = current_wal_seq_num

WCurrentWalStep ==
  /\ ~crashed
  /\ pc[Worker] = "rec_step"
  /\ Len(w_steps) > 0
  /\ Head(w_steps).type = "RecoveryCurrentWal"
  /\ EngineLockFree
  /\ IF SameCurrentWal(Head(w_steps).seq)
       THEN /\ wal_file_' = [wal_file_ EXCEPT !.flushing = FALSE]
            /\ pc' = [pc EXCEPT ![Worker] = "rec_curwal"]
            /\ UNCHANGED w_steps
            /\ ev' = Ev("DisableFlushing", replica_state_, "none", "none", -1)
     ELSE /\ w_steps' = Tail(w_steps)
          /\ UNCHANGED <<wal_file_, pc>>
          /\ ev' = Ev("RecoveryCurrentWal", replica_state_, "none", "skipped", -1)
  /\ UNCHANGED <<last_commit_timestamp_, epoch_id_, epoch_history_,
                 wal_seq_num_, wal_files, snapshot_files, snapshots_made, m_pc,
                 m_ts, replicaVars, constructed, replica_state_,
                 replica_stream_, mode_, timeout_, timeout_dispatcher_,
                 td_active, td_finished, thread_pool_, timeout_pool, w_rc,
                 hs_response, config_timeout, tt_pc, failures, crashed>>
  /\ UNCHANGED <<mvccVars, valueVars>>


\* ReplicateCurrentWal and EnableFlushing, outside engine_lock_.  The file and
\* the buffer of storage_->wal_file_ are read as they are at that moment; the
\* WAL cannot have been closed, its flushing being disabled.
WReplicateCurrentWal ==
  /\ ~crashed
  /\ pc[Worker] = "rec_curwal"
  /\ LET r == ReplicaLoadWal(Replica, WalInfo(wal_file_), epoch_id_)
     IN \/ /\ SetReplica(r)
           /\ w_rc' = r.commit
           /\ wal_file_' = [wal_file_ EXCEPT !.flushing = TRUE]
           /\ UNCHANGED <<replica_state_, thread_pool_, failures>>
           /\ ev' = Ev("ReplicateCurrentWal", replica_state_, "success",
                       "none", r.commit)
        \/ \* the exception skips EnableFlushing
           /\ MayFail
           /\ RecoveryRpcFailed("ReplicateCurrentWal")
           /\ SetReplica(r) \/ UNCHANGED replicaVars
           /\ UNCHANGED <<w_rc, wal_file_>>
  /\ w_steps' = Tail(w_steps)
  /\ pc' = [pc EXCEPT ![Worker] = "rec_step"]
  /\ UNCHANGED <<last_commit_timestamp_, epoch_id_, epoch_history_,
                 wal_seq_num_, wal_files, snapshot_files, snapshots_made, m_pc,
                 m_ts, constructed, replica_stream_, mode_, timeout_,
                 timeout_dispatcher_, td_active, td_finished, timeout_pool,
                 hs_response, config_timeout, tt_pc, crashed>>
  /\ UNCHANGED <<mvccVars, valueVars>>

\* A mutation of RecoveryDone: the comparison is the wrong one.
RecoveryDoneAhead(replica_commit) == last_commit_timestamp_ < replica_commit

\* The test at the end of an iteration, under client_lock_.
RecoveryDone(replica_commit) == last_commit_timestamp_ = replica_commit

WRecoverCheck ==
  /\ ~crashed
  /\ pc[Worker] = "rec_step"
  /\ Len(w_steps) = 0
  /\ IF RecoveryDone(w_rc)
       THEN /\ replica_state_' = READY
            /\ pc' = [pc EXCEPT ![Worker] = "idle"]
            /\ ev' = Ev("RecoverReplica", replica_state_, "none", "done", w_rc)
     ELSE /\ pc' = [pc EXCEPT ![Worker] = "rec_get"]
          /\ UNCHANGED replica_state_
          /\ ev' = Ev("RecoverReplica", replica_state_, "none", "again", w_rc)
  /\ file_retainer_' = ReleaseLocker(file_retainer_)
  /\ UNCHANGED <<mainVars, replicaVars, constructed, replica_stream_, mode_,
                 timeout_, timeout_dispatcher_, td_active, td_finished,
                 thread_pool_, timeout_pool, w_rc, w_steps, hs_response,
                 config_timeout, tt_pc, failures, crashed>>
  /\ UNCHANGED <<mvccVars, valueRest>>

(***************************************************************************)
(* The thread of TimeoutDispatcher::timeout_pool.                          *)
(***************************************************************************)
TimeoutTaskStart ==
  /\ ~crashed
  /\ timeout_dispatcher_
  /\ tt_pc = "idle"
  /\ timeout_pool > 0
  /\ timeout_pool' = timeout_pool - 1
  /\ td_finished' = FALSE
  /\ tt_pc' = "waiting"
  /\ ev' = Ev("TimeoutTask", replica_state_, "none", "started", -1)
  /\ UNCHANGED <<mainVars, replicaVars, clientCore, constructed, mode_,
                 timeout_, timeout_dispatcher_, td_active, pc, w_rc, w_steps,
                 hs_response, config_timeout>>
  /\ UNCHANGED <<mvccVars, valueVars>>
\* A mutation of TimeoutTaskEnd: the timeout task ends without clearing
\* `active`.
TimeoutTaskEndKeepsActive ==
  /\ ~crashed
  /\ tt_pc = "waiting"
  /\ td_finished' = TRUE
  /\ tt_pc' = "idle"
  /\ ev' = Ev("TimeoutTask", replica_state_, "none", "inactive", -1)
  /\ UNCHANGED <<mainVars, replicaVars, clientCore, constructed, mode_,
                 timeout_, timeout_dispatcher_, td_active, timeout_pool, pc,
                 w_rc, w_steps, hs_response, config_timeout>>
  /\ UNCHANGED <<mvccVars, valueVars>>

\* The wait loop ends, because `active` was cleared or the time is over.
TimeoutTaskEnd ==
  /\ ~crashed
  /\ tt_pc = "waiting"
  /\ td_finished' = TRUE
  /\ td_active' = FALSE
  /\ tt_pc' = "idle"
  /\ ev' = Ev("TimeoutTask", replica_state_, "none",
              IF td_active THEN "timeout" ELSE "inactive", -1)
  /\ UNCHANGED <<mainVars, replicaVars, clientCore, constructed, mode_,
                 timeout_, timeout_dispatcher_, timeout_pool, pc, w_rc,
                 w_steps, hs_response, config_timeout>>
  /\ UNCHANGED <<mvccVars, valueVars>>

(***************************************************************************)
(* PreviousPtr: a pointer to a Delta, a Vertex or an Edge with the type in  *)
(* its two low bits.  Pointers are the numbers 0..MaxPointer.               *)
(***************************************************************************)

kDelta == 1
kVertex == 2
kEdge == 3
kMask == 3

PointerType == {"DELTA", "VERTEX", "EDGE"}
Pointers == 0..MaxPointer

\* value & kMask
AndMask(value) == value % (kMask + 1)

\* A mutation of ClearMask: the tag bits are not masked off.
ClearMaskNot(value) == value

\* value & ~kMask
ClearMask(value) == value - AndMask(value)

\* a | b on one bit
OrBit(a, b) == IF a = 1 \/ b = 1 THEN 1 ELSE 0

\* value | tag, for a tag of two bits
OrTag(value, tag) ==
  ClearMask(value)
    + OrBit(AndMask(value) % 2, tag % 2)
    + 2 * OrBit(AndMask(value) \div 2, tag \div 2)

Tag(type) ==
  CASE type = "DELTA" -> kDelta
    [] type = "VERTEX" -> kVertex
    [] type = "EDGE" -> kEdge

\* What a call returns: ok is FALSE when a CHECK failed or LOG(FATAL) was
\* reached, and then there is no value.
Result(ok, type, pointer) == [ok |-> ok, type |-> type, pointer |-> pointer]
CheckFailed == Result(FALSE, "none", 0)
NoResult == Result(TRUE, "none", 0)

\* storage_{0}, no call made yet
NewPreviousPtr ==
  [storage_ |-> 0, op |-> "none", type |-> "none", pointer |-> 0,
   get |-> "none", result |-> NoResult, set |-> FALSE]

\* Set(Delta *), Set(Vertex *), Set(Edge *): the storage_ after the call.
Set(storage, type, pointer) ==
  IF AndMask(pointer) = 0 THEN OrTag(pointer, Tag(type)) ELSE storage

\* Does the CHECK of Set pass?
SetChecks(pointer) == AndMask(pointer) = 0

GetType(storage) ==
  CASE AndMask(storage) = kDelta -> Result(TRUE, "DELTA", 0)
    [] AndMask(storage) = kVertex -> Result(TRUE, "VERTEX", 0)
    [] AndMask(storage) = kEdge -> Result(TRUE, "EDGE", 0)
    [] OTHER -> CheckFailed

\* GetDelta, GetVertex, GetEdge
GetPointer(storage, type) ==
  IF AndMask(storage) = Tag(type)
    THEN Result(TRUE, "none", ClearMask(storage))
  ELSE CheckFailed

\* The variables the calls on a PreviousPtr leave alone.
valueFrame == <<mainVars, clientVars, replicaVars, mvccVars, file_retainer_,
               ev>>

\* A failed CHECK aborts the process.
PtrAlive == previous_ptr.result.ok

PtrSet(type, pointer) ==
  /\ PtrAlive
  /\ previous_ptr' =
       [storage_ |-> Set(previous_ptr.storage_, type, pointer),
        op |-> "Set", type |-> type, pointer |-> pointer, get |-> "none",
        result |-> IF SetChecks(pointer) THEN NoResult ELSE CheckFailed,
        set |-> SetChecks(pointer)]
  /\ UNCHANGED <<valueFrame, recovered, graph, compared, spinlock>>

PtrGetType ==
  /\ PtrAlive
  /\ previous_ptr' = [previous_ptr EXCEPT
                        !.op = "GetType", !.get = "none",
                        !.result = GetType(previous_ptr.storage_)]
  /\ UNCHANGED <<valueFrame, recovered, graph, compared, spinlock>>

PtrGet(type) ==
  /\ PtrAlive
  /\ previous_ptr' = [previous_ptr EXCEPT
                        !.op = "Get", !.get = type,
                        !.result = GetPointer(previous_ptr.storage_, type)]
  /\ UNCHANGED <<valueFrame, recovered, graph, compared, spinlock>>

(***************************************************************************)
(* The specification of the calls on one PreviousPtr.                      *)
(***************************************************************************)
PtrNext ==
  \/ \E type \in PointerType, pointer \in Pointers : PtrSet(type, pointer)
  \/ PtrGetType
  \/ \E type \in PointerType : PtrGet(type)

(***************************************************************************)
(* Recovery of the storage from its durability files.  The state of the    *)
(* storage is the set of the commit timestamps it holds.                   *)
(***************************************************************************)
\* No recovery was run, no file was lost.
NotRecovered == [done |-> FALSE, ok |-> FALSE, commits |-> {}, lost |-> {}]

\* The WAL segments on disk by seq_num: the finalized ones and the one being
\* written, when it holds a transaction.
WalSegments ==
  wal_files \o (IF wal_file_.exists /\ wal_file_.to_timestamp > 0
                  THEN <<WalInfo(wal_file_)>> ELSE <<>>)

\* The start timestamp of the latest snapshot, 0 with no snapshot.
SnapshotStart(snapshots) ==
  IF snapshots = {} THEN kTimestampInitialId ELSE SetMax(snapshots)

\* A mutation of ReplayedWals: no segment is skipped.
ReplayedWalsAll(wals, start) == wals

\* The segments that hold an entry newer than the snapshot.
ReplayedWals(wals, start) ==
  SelectSeq(wals, LAMBDA wal : wal.to_timestamp > start)

\* The chain covers the snapshot's start timestamp and has no gap.
Contiguous(chain, start) ==
  /\ chain # <<>> => chain[1].from_timestamp <= start + 1
  /\ \A i \in 1..(Len(chain) - 1) : chain[i + 1].seq_num = chain[i].seq_num + 1

\* The snapshot is loaded and the entries newer than it are replayed.
Replay(chain, start) ==
  (1..start) \cup UNION {{ts \in chain[i].from_timestamp..chain[i].to_timestamp :
                             ts > start} : i \in 1..Len(chain)}

RecoverData(snapshots, wals) ==
  LET start == SnapshotStart(snapshots)
      chain == ReplayedWals(wals, start)
  IN IF Contiguous(chain, start)
       THEN [ok |-> TRUE, commits |-> Replay(chain, start)]
     ELSE [ok |-> FALSE, commits |-> {}]

\* The variables recovery and the loss of a file leave alone.
durabilityFrame == <<last_commit_timestamp_, epoch_id_, epoch_history_,
                     wal_file_, wal_seq_num_, snapshot_files, snapshots_made,
                     m_pc, m_ts, clientVars, replicaVars, mvccVars,
                     previous_ptr, graph, compared, spinlock,
                     file_retainer_, ev>>

\* A finalized WAL file disappears from the directory.
LoseWalFile(i) ==
  /\ ~recovered.done
  /\ i \in 1..Len(wal_files)
  /\ wal_files' = SubSeq(wal_files, 1, i - 1)
                    \o SubSeq(wal_files, i + 1, Len(wal_files))
  /\ recovered' = [recovered EXCEPT !.lost = @ \cup {wal_files[i]}]
  /\ UNCHANGED durabilityFrame

\* The storage is opened on the directory.
Recover ==
  /\ ~recovered.done
  /\ m_pc = "idle"
  /\ LET data == RecoverData(snapshot_files, WalSegments)
     IN recovered' = [recovered EXCEPT !.done = TRUE, !.ok = data.ok,
                                       !.commits = data.commits]
  /\ UNCHANGED <<durabilityFrame, wal_files>>

(***************************************************************************)
(* The graph one accessor works on (View::NEW): every vertex keeps the     *)
(* edges that end at it and the edges that start at it, each entry being   *)
(* the edge type, the vertex at the other end and the edge.                *)
(***************************************************************************)
GraphGids == 1..MaxGraphVertices
EdgeGids == 1..MaxEdges

\* The vertices created and committed by the earlier accessors; no edge
\* exists yet.  removed holds the edges taken away by the last operation.
NewGraph ==
  [vertices |-> [v \in GraphGids |->
                   [deleted |-> FALSE, in_edges |-> {}, out_edges |-> {}]],
   edges |-> 0,
   removed |-> {}]

\* One entry of a vertex's in_edges or out_edges.
Link(edge_type, vertex, edge) ==
  [edge_type |-> edge_type, vertex |-> vertex, edge |-> edge]

\* FindVertex(gid, View::NEW) has a value.
Found(g, v) == ~g.vertices[v].deleted

\* The edges adjacent to a vertex.
AdjacentEdges(g, v) ==
  {l.edge : l \in g.vertices[v].in_edges \cup g.vertices[v].out_edges}

\* Every entry stays in the edge list.
RemoveEdgesNone(links, edges) == links

\* The entries that stay in an edge list when the given edges are deleted.
RemoveEdges(links, edges) == {l \in links : l.edge \notin edges}

graphFrame == <<valueFrame, previous_ptr, recovered, compared, spinlock>>

\* acc.CreateEdge(&from, &to, edge_type): both vertices were found.
CreateEdge(from, to, edge_type) ==
  /\ graph.edges < MaxEdges
  /\ Found(graph, from)
  /\ Found(graph, to)
  /\ LET edge == graph.edges + 1
     IN graph' =
          [vertices |->
             [v \in GraphGids |->
                [deleted |-> graph.vertices[v].deleted,
                 in_edges |->
                   IF v = to
                     THEN graph.vertices[v].in_edges
                            \cup {Link(edge_type, from, edge)}
                     ELSE graph.vertices[v].in_edges,
                 out_edges |->
                   IF v = from
                     THEN graph.vertices[v].out_edges
                            \cup {Link(edge_type, to, edge)}
                     ELSE graph.vertices[v].out_edges]],
           edges |-> edge,
           removed |-> {}]
  /\ UNCHANGED graphFrame

\* acc.DetachDeleteVertex(&vertex): the vertex was found; every adjacent edge
\* is deleted at both of its ends and then the vertex is deleted.
DetachDeleteVertex(vertex) ==
  /\ Found(graph, vertex)
  /\ LET edges == AdjacentEdges(graph, vertex)
     IN graph' =
          [vertices |->
             [v \in GraphGids |->
                [deleted |-> (v = vertex) \/ graph.vertices[v].deleted,
                 in_edges |-> RemoveEdges(graph.vertices[v].in_edges, edges),
                 out_edges |->
                   RemoveEdges(graph.vertices[v].out_edges, edges)]],
           edges |-> graph.edges,
           removed |-> edges]
  /\ UNCHANGED graphFrame

GraphNext ==
  \/ \E from \in GraphGids, to \in GraphGids, edge_type \in GraphGids :
       CreateEdge(from, to, edge_type)
  \/ \E vertex \in GraphGids : DetachDeleteVertex(vertex)

(***************************************************************************)
(* PropertyValue: null, bool, int, double, string, list or map.  A number  *)
(* is kept in halves (the int 2 and the double 2.0 are both 4 halves), a   *)
(* string is the sequence of its characters, a list the sequence of its    *)
(* items and a map the sequence of its <<key, value>> pairs by rising key.  *)
(***************************************************************************)
PropertyValue(type, bool, number, string, list, map) ==
  [type |-> type, bool |-> bool, number |-> number, string |-> string,
   list |-> list, map |-> map]

NullValue == PropertyValue("Null", FALSE, 0, <<>>, <<>>, <<>>)
BoolValue(b) == PropertyValue("Bool", b, 0, <<>>, <<>>, <<>>)
IntValue(n) == PropertyValue("Int", FALSE, 2 * n, <<>>, <<>>, <<>>)
DoubleValue(halves) == PropertyValue("Double", FALSE, halves, <<>>, <<>>, <<>>)
StringValue(s) == PropertyValue("String", FALSE, 0, s, <<>>, <<>>)
ListValue(items) == PropertyValue("List", FALSE, 0, <<>>, items, <<>>)
MapValue(pairs) == PropertyValue("Map", FALSE, 0, <<>>, <<>>, pairs)

\* The enumerators of PropertyValue::Type in their order.
TypeOrder(type) ==
  CASE type = "Null" -> 0
    [] type = "Bool" -> 1
    [] type = "Int" -> 2
    [] type = "Double" -> 3
    [] type = "String" -> 4
    [] type = "List" -> 5
    [] type = "Map" -> 6

\* Only a type is comparable with itself.
AreComparableTypesSame(first, second) == first = second

\* The two types are compared by value: the same type, or two numbers.
AreComparableTypes(first, second) ==
  \/ first = second
  \/ first \in {"Int", "Double"} /\ second \in {"Int", "Double"}

\* std::string: operator< is lexicographic.
RECURSIVE StringLess(_, _)
StringLess(first, second) ==
  IF second = <<>> THEN FALSE
  ELSE IF first = <<>> THEN TRUE
  ELSE IF Head(first) < Head(second) THEN TRUE
  ELSE IF Head(second) < Head(first) THEN FALSE
  ELSE StringLess(Tail(first), Tail(second))

RECURSIVE Equal(_, _)
RECURSIVE Less(_, _)
RECURSIVE ListLess(_, _)
RECURSIVE MapLess(_, _)

\* operator==(PropertyValue, PropertyValue)
Equal(first, second) ==
  IF ~AreComparableTypes(first.type, second.type) THEN FALSE
  ELSE CASE first.type = "Null" -> TRUE
         [] first.type = "Bool" -> first.bool = second.bool
         [] first.type \in {"Int", "Double"} -> first.number = second.number
         [] first.type = "String" -> first.string = second.string
         [] first.type = "List" ->
              /\ Len(first.list) = Len(second.list)
              /\ \A i \in 1..Len(first.list) :
                   Equal(first.list[i], second.list[i])
         [] first.type = "Map" ->
              /\ Len(first.map) = Len(second.map)
              /\ \A i \in 1..Len(first.map) :
                   /\ first.map[i][1] = second.map[i][1]
                   /\ Equal(first.map[i][2], second.map[i][2])

\* operator<(PropertyValue, PropertyValue)
Less(first, second) ==
  IF ~AreComparableTypes(first.type, second.type)
    THEN TypeOrder(first.type) < TypeOrder(second.type)
    ELSE CASE first.type = "Null" -> FALSE
           [] first.type = "Bool" -> ~first.bool /\ second.bool
           [] first.type \in {"Int", "Double"} -> first.number < second.number
           [] first.type = "String" -> StringLess(first.string, second.string)
           [] first.type = "List" -> ListLess(first.list, second.list)
           [] first.type = "Map" -> MapLess(first.map, second.map)

\* std::vector<PropertyValue>: operator< is lexicographic over the items.
ListLess(first, second) ==
  IF second = <<>> THEN FALSE
  ELSE IF first = <<>> THEN TRUE
  ELSE IF Less(Head(first), Head(second)) THEN TRUE
  ELSE IF Less(Head(second), Head(first)) THEN FALSE
  ELSE ListLess(Tail(first), Tail(second))

\* std::map<std::string, PropertyValue>: operator< is lexicographic over
\* the pairs, a pair being less by its key and then by its value.
MapLess(first, second) ==
  IF second = <<>> THEN FALSE
  ELSE IF first = <<>> THEN TRUE
  ELSE LET a == Head(first)
           b == Head(second)
           less(x, y) ==
             \/ StringLess(x[1], y[1])
             \/ ~StringLess(y[1], x[1]) /\ Less(x[2], y[2])
       IN IF less(a, b) THEN TRUE
          ELSE IF less(b, a) THEN FALSE
          ELSE MapLess(Tail(first), Tail(second))

\* The sequences over a set up to a length.
SeqUpTo(S, n) == UNION {[1..k -> S] : k \in 0..n}

Numbers ==
  {IntValue(n) : n \in 1..MaxInt}
    \cup {DoubleValue(halves) : halves \in 2..(2 * MaxInt)}
Strings == SeqUpTo(1..MaxChar, MaxLength) \ {<<>>}

\* The values compared: every scalar, the lists of numbers, and the maps
\* of at most one key.
PropertyValues ==
  {NullValue}
    \cup {BoolValue(b) : b \in BOOLEAN}
    \cup Numbers
    \cup {StringValue(s) : s \in Strings}
    \cup {ListValue(items) : items \in SeqUpTo(Numbers, MaxLength)}
    \cup {MapValue(<<>>)}
    \cup {MapValue(<<<<key, value>>>>) :
            key \in {<<c>> : c \in 1..MaxChar}, value \in Numbers}

Relation(Op(_, _), values) ==
  [i \in 1..3 |-> [j \in 1..3 |-> Op(values[i], values[j])]]

\* Three values that were not compared yet.
ToCompare(a, b, c) ==
  [values |-> <<a, b, c>>, done |-> FALSE,
   equal |-> [i \in 1..3 |-> [j \in 1..3 |-> FALSE]],
   less |-> [i \in 1..3 |-> [j \in 1..3 |-> FALSE]]]

NotCompared == ToCompare(NullValue, NullValue, NullValue)

\* Every two of the three values are compared with == and with <.
Compare ==
  /\ ~compared.done
  /\ compared' = [values |-> compared.values, done |-> TRUE,
                  equal |-> Relation(Equal, compared.values),
                  less |-> Relation(Less, compared.values)]
  /\ UNCHANGED <<valueFrame, previous_ptr, recovered, graph, spinlock>>

(***************************************************************************)
(* SpinLock: an atomic flag, and the threads that call lock() and, once it *)
(* returned, unlock().                                                     *)
(***************************************************************************)
SpinThreads == 1..MaxThreads

\* ATOMIC_FLAG_INIT, and no thread has called lock() yet.
NewSpinLock ==
  [lock_flag |-> FALSE, at |-> [t \in SpinThreads |-> "outside"]]

\* A mutation of test_and_set: the flag is set, what it was is not reported.
test_and_set_blind(flag) == [flag |-> TRUE, was |-> FALSE]

\* lock_flag.test_and_set: one atomic step that sets the flag and returns
\* what it was.
test_and_set(flag) == [flag |-> TRUE, was |-> flag]

spinFrame == <<valueFrame, previous_ptr, recovered, graph, compared>>

\* A thread calls lock().
lock_call(t) ==
  /\ spinlock.at[t] = "outside"
  /\ spinlock' = [spinlock EXCEPT !.at[t] = "testing"]
  /\ UNCHANGED spinFrame

\* while (lock_flag.test_and_set(acquire)): lock() returns when the flag was
\* clear, otherwise the thread sleeps.
lock_test(t) ==
  /\ spinlock.at[t] = "testing"
  /\ LET r == test_and_set(spinlock.lock_flag)
     IN spinlock' = [spinlock EXCEPT
                       !.lock_flag = r.flag,
                       !.at[t] = IF r.was THEN "sleeping" ELSE "holding"]
  /\ UNCHANGED spinFrame

\* usleep(250) returns.
lock_sleep(t) ==
  /\ spinlock.at[t] = "sleeping"
  /\ spinlock' = [spinlock EXCEPT !.at[t] = "testing"]
  /\ UNCHANGED spinFrame

\* unlock(), called by the thread whose lock() returned.
unlock(t) ==
  /\ spinlock.at[t] = "holding"
  /\ spinlock' = [spinlock EXCEPT !.lock_flag = FALSE, !.at[t] = "outside"]
  /\ UNCHANGED spinFrame

\* What a thread inside lock() does without anybody's help.
lock(t) == lock_test(t) \/ lock_sleep(t)

SpinNext == \E t \in SpinThreads : lock_call(t) \/ lock(t) \/ unlock(t)

(***************************************************************************)
(* The MVCC storage: vertices with their delta chains, the transaction     *)
(* engine, the accessor operations and the garbage collector.              *)
(***************************************************************************)
Gids == 1..MaxVertices
TxIds == 1..MaxTransactions

View_OLD == "OLD"
View_NEW == "NEW"
View == {View_OLD, View_NEW}

\* Transaction ids lie above every commit timestamp.
kTransactionInitialId == MaxTransactions + 1

NoTransaction ==
  [state |-> "none", start_timestamp |-> 0, command_id |-> 0,
   commit_timestamp |-> 0]

\* A gid no vertex was created for yet.
NoVertex ==
  [state |-> "unused", deleted |-> TRUE, label |-> FALSE, delta |-> <<>>]

\* What a read finds of a vertex.
Absent == [found |-> FALSE, label |-> FALSE]

Delta(action, tx, command_id) ==
  [action |-> action, tx |-> tx, command_id |-> command_id]

ActiveTransactions == {t \in TxIds : transactions[t].state = "active"}

\* The value of the commit-timestamp atomic the deltas of tx point to: the
\* transaction id until the commit, the commit timestamp after it.
Timestamp(tx) ==
  IF transactions[tx].state = "committed"
    THEN transactions[tx].commit_timestamp
  ELSE kTransactionInitialId + tx

\* A mutation of Visible: every committed version is visible, whenever it was
\* committed.
VisibleCommitted(timestamp, start_timestamp) ==
  timestamp <= last_commit_timestamp_

\* Walk: a version is visible to a snapshot when its commit timestamp is not
\* after the snapshot's.
Visible(timestamp, start_timestamp) == timestamp <= start_timestamp

\* A mutation of OwnVisible: both views show the deltas of every command.
OwnVisibleAlways(t, delta, view) ==
  delta.tx = t /\ delta.command_id <= transactions[t].command_id

\* The transaction's own deltas: View_NEW shows those of every command, View_OLD those
\* of the commands before the current one.
OwnVisible(t, delta, view) ==
  /\ delta.tx = t
  /\ IF view = View_NEW THEN delta.command_id <= transactions[t].command_id
     ELSE delta.command_id < transactions[t].command_id

\* Applying a delta in reverse.
Undo(state, delta) ==
  CASE delta.action = "DELETE_OBJECT" -> [state EXCEPT !.deleted = TRUE]
    [] delta.action = "RECREATE_OBJECT" -> [state EXCEPT !.deleted = FALSE]
    [] delta.action = "REMOVE_LABEL" -> [state EXCEPT !.label = FALSE]

RECURSIVE Walk(_, _, _, _)
Walk(t, state, chain, view) ==
  IF chain = <<>> THEN state
  ELSE IF \/ Visible(Timestamp(Head(chain).tx), transactions[t].start_timestamp)
          \/ OwnVisible(t, Head(chain), view)
    THEN state
  ELSE Walk(t, Undo(state, Head(chain)), Tail(chain), view)

\* FindVertex and Labels of transaction t under a view.
Read(t, vertex, view) ==
  IF vertex.state # "present" THEN Absent
  ELSE LET state == Walk(t, [deleted |-> vertex.deleted, label |-> vertex.label],
                         vertex.delta, view)
       IN IF state.deleted THEN Absent
          ELSE [found |-> TRUE, label |-> state.label]

\* Has transaction t a delta in the chain of the vertex?
Wrote(t, vertex) == \E i \in 1..Len(vertex.delta) : vertex.delta[i].tx = t

\* A mutation of PrepareForWrite: every write is let through.
PrepareForWriteAlways(t, vertex) == TRUE

\* May transaction t write the vertex?  Not when the head version belongs to
\* another transaction that has not committed or that committed after t began.
PrepareForWrite(t, vertex) ==
  \/ vertex.delta = <<>>
  \/ Head(vertex.delta).tx = t
  \/ Visible(Timestamp(Head(vertex.delta).tx), transactions[t].start_timestamp)

\* A mutation of PrependDelta: the delta is linked at the end of the chain.
PrependDeltaAtEnd(vertex, delta) == [vertex EXCEPT !.delta = @ \o <<delta>>]

\* PrependDelta: the delta becomes the head of the chain.
PrependDelta(vertex, delta) == [vertex EXCEPT !.delta = <<delta>> \o @]

\* A mutation of Unlink: the deltas are unlinked without being applied.
UnlinkUnapplied(t, vertex) ==
  [vertex EXCEPT !.delta = SelectSeq(@, LAMBDA delta : delta.tx # t)]

\* Abort: the deltas of transaction t are applied in reverse and unlinked.
RECURSIVE Unlink(_, _)
Unlink(t, vertex) ==
  IF vertex.delta # <<>> /\ Head(vertex.delta).tx = t
    THEN Unlink(t, [Undo(vertex, Head(vertex.delta))
                      EXCEPT !.delta = Tail(vertex.delta)])
  ELSE vertex

\* Smallest element of a non-empty set of integers.
SetMin(S) == CHOOSE x \in S : \A y \in S : x <= y

\* A mutation of OldestActive: the active set is not looked at.
OldestActiveIgnoresActive == last_commit_timestamp_

\* OldestActive: the GC watermark.
OldestActive ==
  IF ActiveTransactions = {} THEN last_commit_timestamp_
  ELSE SetMin({transactions[t].start_timestamp : t \in ActiveTransactions})

\* Truncate: the chain is cut at the first delta whose timestamp is not after
\* the watermark; that delta and the older ones are freed.
Truncate(chain, oldest_active) ==
  LET old == {i \in 1..Len(chain) : Timestamp(chain[i].tx) <= oldest_active}
  IN IF old = {} THEN chain ELSE SubSeq(chain, 1, SetMin(old) - 1)

\* The GC's visit of a vertex: the chain is truncated, and a deleted vertex
\* with no delta left is removed.
Collect(vertex, oldest_active) ==
  LET chain == Truncate(vertex.delta, oldest_active)
  IN IF chain = <<>> /\ vertex.deleted
       THEN [vertex EXCEPT !.state = "removed", !.delta = <<>>]
     ELSE [vertex EXCEPT !.delta = chain]

\* The variables of the replication the storage operations leave alone.
mvccFrame == <<epoch_id_, epoch_history_, wal_file_, wal_seq_num_, wal_files,
               snapshot_files, snapshots_made, m_pc, m_ts, clientVars,
               replicaVars, valueVars>>

MvccEv(op) == Ev(op, replica_state_, "none", "none", -1)

\* Begin: the next id, the start timestamp, the active set.
Begin ==
  /\ \E t \in TxIds :
       /\ transactions[t].state = "none"
       /\ \A u \in TxIds : u < t => transactions[u].state # "none"
       /\ transactions' =
            [transactions EXCEPT
               ![t] = [state |-> "active",
                       start_timestamp |-> last_commit_timestamp_,
                       command_id |-> 0, commit_timestamp |-> 0]]
  /\ ev' = MvccEv("Begin")
  /\ UNCHANGED <<last_commit_timestamp_, vertices, gc_pc, gc_watermark,
                 gc_todo, untruncated, committed_history, mvccFrame>>

CreatedVertex(t) ==
  [state |-> "present", deleted |-> FALSE, label |-> FALSE,
   delta |-> <<Delta("DELETE_OBJECT", t, transactions[t].command_id)>>]

CreateVertex(t) ==
  /\ transactions[t].state = "active"
  /\ \E gid \in Gids :
       /\ vertices[gid].state = "unused"
       /\ \A g \in Gids : g < gid => vertices[g].state # "unused"
       /\ vertices' = [vertices EXCEPT ![gid] = CreatedVertex(t)]
       /\ untruncated' = [untruncated EXCEPT ![gid] = CreatedVertex(t)]
  /\ ev' = MvccEv("CreateVertex")
  /\ UNCHANGED <<last_commit_timestamp_, transactions, gc_pc, gc_watermark,
                 gc_todo, committed_history, mvccFrame>>

DeletedVertex(t, vertex) ==
  [PrependDelta(vertex, Delta("RECREATE_OBJECT", t, transactions[t].command_id))
     EXCEPT !.deleted = TRUE]

DeleteVertex(t, gid) ==
  /\ transactions[t].state = "active"
  /\ Read(t, vertices[gid], View_NEW).found
  /\ IF PrepareForWrite(t, vertices[gid])
       THEN /\ vertices' = [vertices EXCEPT ![gid] = DeletedVertex(t, @)]
            /\ untruncated' = [untruncated EXCEPT ![gid] = DeletedVertex(t, @)]
            /\ ev' = MvccEv("DeleteVertex")
     ELSE /\ UNCHANGED <<vertices, untruncated>>
          /\ ev' = MvccEv("SerializationError")
  /\ UNCHANGED <<last_commit_timestamp_, transactions, gc_pc, gc_watermark,
                 gc_todo, committed_history, mvccFrame>>

LabelledVertex(t, vertex) ==
  [PrependDelta(vertex, Delta("REMOVE_LABEL", t, transactions[t].command_id))
     EXCEPT !.label = TRUE]

\* AddLabel of a label the vertex does not have (with the label it is a no-op).
AddLabel(t, gid) ==
  /\ transactions[t].state = "active"
  /\ Read(t, vertices[gid], View_NEW).found
  /\ ~Read(t, vertices[gid], View_NEW).label
  /\ IF PrepareForWrite(t, vertices[gid])
       THEN /\ vertices' = [vertices EXCEPT ![gid] = LabelledVertex(t, @)]
            /\ untruncated' = [untruncated EXCEPT ![gid] = LabelledVertex(t, @)]
            /\ ev' = MvccEv("AddLabel")
     ELSE /\ UNCHANGED <<vertices, untruncated>>
          /\ ev' = MvccEv("SerializationError")
  /\ UNCHANGED <<last_commit_timestamp_, transactions, gc_pc, gc_watermark,
                 gc_todo, committed_history, mvccFrame>>

AdvanceCommand(t) ==
  /\ transactions[t].state = "active"
  /\ transactions[t].command_id < MaxCommands
  /\ transactions' = [transactions EXCEPT ![t].command_id = @ + 1]
  /\ ev' = MvccEv("AdvanceCommand")
  /\ UNCHANGED <<last_commit_timestamp_, vertices, gc_pc, gc_watermark,
                 gc_todo, untruncated, committed_history, mvccFrame>>

\* The state of the in-memory object.
Current(vertex) ==
  IF vertex.state # "present" \/ vertex.deleted THEN Absent
  ELSE [found |-> TRUE, label |-> vertex.label]

\* A mutation of Commit: the timestamp is the last one, not the next one.
CommitSameTimestamp(t) ==
  /\ transactions[t].state = "active"
  /\ last_commit_timestamp_' = last_commit_timestamp_
  /\ transactions' = [transactions EXCEPT
                        ![t].state = "committed",
                        ![t].commit_timestamp = last_commit_timestamp_]
  /\ committed_history' =
       Append(committed_history,
              [gid \in Gids |->
                 IF Wrote(t, vertices[gid]) THEN Current(vertices[gid])
                 ELSE committed_history[Len(committed_history)][gid]])
  /\ ev' = MvccEv("Commit")
  /\ UNCHANGED <<vertices, gc_pc, gc_watermark, gc_todo, untruncated,
                 mvccFrame>>

\* Commit: the next commit timestamp goes to the transaction's atomic.
Commit(t) ==
  /\ transactions[t].state = "active"
  /\ last_commit_timestamp_' = last_commit_timestamp_ + 1
  /\ transactions' = [transactions EXCEPT
                        ![t].state = "committed",
                        ![t].commit_timestamp = last_commit_timestamp_ + 1]
  /\ committed_history' =
       Append(committed_history,
              [gid \in Gids |->
                 IF Wrote(t, vertices[gid]) THEN Current(vertices[gid])
                 ELSE committed_history[Len(committed_history)][gid]])
  /\ ev' = MvccEv("Commit")
  /\ UNCHANGED <<vertices, gc_pc, gc_watermark, gc_todo, untruncated,
                 mvccFrame>>

Abort(t) ==
  /\ transactions[t].state = "active"
  /\ transactions' = [transactions EXCEPT ![t].state = "aborted"]
  /\ vertices' = [gid \in Gids |-> Unlink(t, vertices[gid])]
  /\ untruncated' = [gid \in Gids |-> Unlink(t, untruncated[gid])]
  /\ ev' = MvccEv("Abort")
  /\ UNCHANGED <<last_commit_timestamp_, gc_pc, gc_watermark, gc_todo,
                 committed_history, mvccFrame>>

\* A GC run begins: the watermark is computed.
GcStart ==
  /\ gc_pc = "idle"
  /\ gc_watermark' = OldestActive
  /\ gc_todo' = {gid \in Gids : vertices[gid].state = "present"}
  /\ gc_pc' = "run"
  /\ ev' = MvccEv("OldestActive")
  /\ UNCHANGED <<last_commit_timestamp_, vertices, transactions, untruncated,
                 committed_history, mvccFrame>>

\* The GC run visits a vertex.
GcTruncate(gid) ==
  /\ gc_pc = "run"
  /\ gid \in gc_todo
  /\ vertices' = [vertices EXCEPT ![gid] = Collect(@, gc_watermark)]
  /\ gc_todo' = gc_todo \ {gid}
  /\ ev' = MvccEv("Truncate")
  /\ UNCHANGED <<last_commit_timestamp_, transactions, gc_pc, gc_watermark,
                 untruncated, committed_history, mvccFrame>>

GcEnd ==
  /\ gc_pc = "run"
  /\ gc_todo = {}
  /\ gc_pc' = "idle"
  /\ ev' = MvccEv("GcEnd")
  /\ UNCHANGED <<last_commit_timestamp_, vertices, transactions, gc_watermark,
                 gc_todo, untruncated, committed_history, mvccFrame>>

\* The MVCC variables of a storage that was just opened.
MvccStart ==
  /\ vertices = [gid \in Gids |-> NoVertex]
  /\ transactions = [t \in TxIds |-> NoTransaction]
  /\ gc_pc = "idle"
  /\ gc_watermark = 0
  /\ gc_todo = {}
  /\ untruncated = [gid \in Gids |-> NoVertex]
  /\ committed_history = <<[gid \in Gids |-> Absent]>>
  /\ previous_ptr = NewPreviousPtr
  /\ recovered = NotRecovered
  /\ graph = NewGraph
  /\ spinlock = NewSpinLock
  /\ file_retainer_ = NewFileRetainer

(***************************************************************************)
(* The specification.                                                      *)
(***************************************************************************)
\* Commit timestamps a replica may be at when it is registered.
ReplicaStart == 0..(MaxCommits - 1)
EpochIds == {"e1", "e2"}

\* The state after the storage was opened and before the client is constructed;
\* spent is the number of RPC failures the network has had already.
StorageStart(spent) ==
  /\ last_commit_timestamp_ = kTimestampInitialId
  /\ epoch_id_ = "e1"
  /\ epoch_history_ = <<>>
  /\ wal_file_ = NoWal
  /\ wal_seq_num_ = 0
  /\ wal_files = <<>>
  /\ snapshot_files = {}
  /\ snapshots_made = 0
  /\ m_pc = "idle"
  /\ m_ts = 0
  /\ constructed = FALSE
  /\ replica_state_ = INVALID
  /\ replica_stream_ = NoStream
  /\ mode_ \in ReplicationMode
  /\ config_timeout \in BOOLEAN
  /\ mode_ = ASYNC => ~config_timeout
  /\ timeout_ = FALSE
  /\ timeout_dispatcher_ = FALSE
  /\ td_active = FALSE
  /\ td_finished = TRUE
  /\ thread_pool_ = <<>>
  /\ timeout_pool = 0
  /\ pc = [t \in {Ctor, Worker} |-> IF t = Ctor THEN "hs_start" ELSE "idle"]
  /\ w_rc = 0
  /\ w_steps = <<>>
  /\ hs_response = [t \in {Ctor, Worker} |->
                      [current_commit_timestamp |-> 0, epoch_id |-> "e1"]]
  /\ tt_pc = "idle"
  /\ failures = spent
  /\ crashed = FALSE
  /\ r_commit \in ReplicaStart
  /\ r_epoch \in EpochIds
  /\ r_log = [i \in 1..r_commit |-> i]
  /\ MvccStart
  /\ ev = Ev("Init", INVALID, "none", "none", -1)

InitWith(spent) ==
  /\ StorageStart(spent)
  /\ compared = NotCompared

Init == InitWith(0)

Next ==
  \/ MainStartTransaction
  \/ MainAppendDelta
  \/ MainAppendTransactionEnd
  \/ FinalizeNotStreaming
  \/ FinalizeAsync
  \/ FinalizeWithTimeout
  \/ FinalizeWake
  \/ FinalizeInline
  \/ MainCommitDone
  \/ CreateSnapshot
  \/ NewEpoch
  \/ HsHeartbeat(Ctor)
  \/ HsAlign(Ctor)
  \/ CtorFinish
  \/ WReconnect
  \/ HsHeartbeat(Worker)
  \/ HsAlign(Worker)
  \/ WFinalize
  \/ WFinalizeNotify
  \/ WResetDispatcher
  \/ WRecoverReplica
  \/ WGetRecoverySteps
  \/ WTransferStep
  \/ WCurrentWalStep
  \/ WReplicateCurrentWal
  \/ WRecoverCheck
  \/ TimeoutTaskStart
  \/ TimeoutTaskEnd

Spec == Init /\ [][Next]_vars

(***************************************************************************)
(* The specification of the MVCC storage, with no replica registered.      *)
(***************************************************************************)
MvccInit ==
  /\ InitWith(0)
  /\ mode_ = ASYNC
  /\ r_commit = kTimestampInitialId
  /\ r_epoch = "e1"

MvccNext ==
  \/ Begin
  \/ \E t \in TxIds : CreateVertex(t)
  \/ \E t \in TxIds, gid \in Gids : DeleteVertex(t, gid)
  \/ \E t \in TxIds, gid \in Gids : AddLabel(t, gid)
  \/ \E t \in TxIds : AdvanceCommand(t)
  \/ \E t \in TxIds : Commit(t)
  \/ \E t \in TxIds : Abort(t)
  \/ GcStart
  \/ \E gid \in Gids : GcTruncate(gid)
  \/ GcEnd

MvccSpec == MvccInit /\ [][MvccNext]_vars

PtrSpec == MvccInit /\ [][PtrNext]_vars

GraphSpec == MvccInit /\ [][GraphNext]_vars

\* Three PropertyValues are drawn and compared.
PropertyInit ==
  /\ StorageStart(0)
  /\ mode_ = ASYNC
  /\ r_commit = kTimestampInitialId
  /\ r_epoch = "e1"
  /\ \E a \in PropertyValues, b \in PropertyValues, c \in PropertyValues :
       compared = ToCompare(a, b, c)

PropertySpec == PropertyInit /\ [][Compare]_vars

\* The threads of a SpinLock: a thread inside lock() keeps running; whether
\* a thread calls lock(), and when the holder calls unlock(), is its choice.
SpinLockSpec ==
  MvccInit /\ [][SpinNext]_vars /\ \A t \in SpinThreads : WF_vars(lock(t))

(***************************************************************************)
(* The specification of a network that fails no RPC, with the scheduling   *)
(* the threads give: a commit that began goes on to its end, the worker of *)
(* thread_pool_ and the timeout thread run what they are given, and the    *)
(* constructor returns.  Whether a transaction, a snapshot or a new epoch  *)
(* begins is the caller's choice.                                          *)
(***************************************************************************)
StableInit == InitWith(MaxRpcFailures)

CommitProgress ==
  \/ MainAppendDelta
  \/ MainAppendTransactionEnd
  \/ FinalizeNotStreaming
  \/ FinalizeAsync
  \/ FinalizeWithTimeout
  \/ FinalizeWake
  \/ FinalizeInline
  \/ MainCommitDone

CtorProgress == HsHeartbeat(Ctor) \/ HsAlign(Ctor) \/ CtorFinish

WorkerProgress ==
  \/ WReconnect
  \/ HsHeartbeat(Worker)
  \/ HsAlign(Worker)
  \/ WFinalize
  \/ WFinalizeNotify
  \/ WResetDispatcher
  \/ WRecoverReplica
  \/ WGetRecoverySteps
  \/ WTransferStep
  \/ WCurrentWalStep
  \/ WReplicateCurrentWal
  \/ WRecoverCheck

TimeoutProgress == TimeoutTaskStart \/ TimeoutTaskEnd

Fairness ==
  /\ WF_vars(CommitProgress)
  /\ WF_vars(CtorProgress)
  /\ WF_vars(WorkerProgress)
  /\ WF_vars(TimeoutProgress)

StableSpec == StableInit /\ [][Next]_vars /\ Fairness

(***************************************************************************)
(* Properties of StartTransactionReplication.                              *)
(***************************************************************************)
(***************************************************************************)
(* The specification of one run of RecoverReplica over the durability      *)
(* files a storage can hold: Init draws the finalized WALs, the current    *)
(* WAL, the latest snapshot and replica_commit from bounded sets, and the  *)
(* worker applies GetRecoverySteps and runs the steps; nothing commits in  *)
(* the meantime.                                                           *)
(***************************************************************************)
\* The to_timestamps of the WAL files that were finalized so far, file by file:
\* sequence numbers 0, 1, ... and commit timestamps that go on from file to
\* file.
WalHistories ==
  UNION {{e \in [1..n -> 1..MaxTimestamp] :
            \A i \in 1..(n - 1) : e[i] < e[i + 1]} : n \in 0..MaxFinalized}

WrittenWal(e, i) ==
  [seq_num |-> i - 1,
   from_timestamp |-> IF i = 1 THEN 1 ELSE e[i - 1] + 1,
   to_timestamp |-> e[i]]

\* The files of the history that are still in the WAL directory.
KeptWals(e, K) ==
  LET Kept(w) == (w.seq_num + 1) \in K
  IN SelectSeq([i \in 1..Len(e) |-> WrittenWal(e, i)], Kept)

\* A WAL file is deleted only once a snapshot covers it, and the WAL that
\* holds a transaction from before the snapshot is retained.
Retention(e, K, snapshot) ==
  K # 1..Len(e)
    => /\ snapshot # NoSnapshot
       /\ \A i \in (1..Len(e)) \ K : e[i] <= snapshot
       /\ K # {} => KeptWals(e, K)[1].from_timestamp <= snapshot

Max2(a, b) == IF a >= b THEN a ELSE b

\* The durability files, the MAIN's last commit and the commit the replica is
\* at; made is the number of snapshots the instance made since it started.
StorageWith(made) ==
  \E e \in WalHistories, current_to \in 0..MaxTimestamp,
     snapshot \in {NoSnapshot} \cup (0..MaxTimestamp) :
    \E K \in SUBSET (1..Len(e)) :
      LET n == Len(e)
          finalized_to == IF n = 0 THEN 0 ELSE e[n]
          has_current == current_to # 0
          last == Max2(Max2(finalized_to, current_to), snapshot)
      IN /\ has_current => current_to > finalized_to
         /\ Retention(e, K, snapshot)
         /\ wal_files = KeptWals(e, K)
         /\ wal_file_ = IF has_current
                          THEN [exists |-> TRUE, seq_num |-> n,
                                from_timestamp |-> finalized_to + 1,
                                to_timestamp |-> current_to, flushing |-> TRUE]
                        ELSE NoWal
         /\ wal_seq_num_ = IF has_current THEN n + 1 ELSE n
         /\ snapshot_files = IF snapshot = NoSnapshot THEN {} ELSE {snapshot}
         /\ snapshots_made = made
         /\ last_commit_timestamp_ = last
         /\ m_ts = last
         /\ r_commit \in 0..last

\* The instance makes no snapshot any more.
RecoveryStorage == StorageWith(MaxSnapshots)

\* A registered ASYNC replica in RECOVERY whose worker is about to run
\* RecoverReplica(w_rc).
RecoveryClient ==
  /\ epoch_id_ = "e1"
  /\ epoch_history_ = <<>>
  /\ m_pc = "idle"
  /\ constructed = TRUE
  /\ replica_state_ = RECOVERY
  /\ replica_stream_ = NoStream
  /\ mode_ = ASYNC
  /\ config_timeout = FALSE
  /\ timeout_ = FALSE
  /\ timeout_dispatcher_ = FALSE
  /\ td_active = FALSE
  /\ td_finished = TRUE
  /\ thread_pool_ = <<>>
  /\ timeout_pool = 0
  /\ pc = [t \in {Ctor, Worker} |-> IF t = Ctor THEN "done" ELSE "rec_get"]
  /\ w_steps = <<>>
  /\ hs_response = [t \in {Ctor, Worker} |->
                      [current_commit_timestamp |-> r_commit, epoch_id |-> "e1"]]
  /\ tt_pc = "idle"
  /\ failures = 0
  /\ crashed = FALSE
  /\ r_epoch = "e1"
  /\ r_log = [i \in 1..r_commit |-> i]
  /\ MvccStart
  /\ compared = NotCompared
  /\ ev = Ev("RecoverReplica", RECOVERY, "none", "none", w_rc)

RecoveryInit ==
  /\ RecoveryStorage
  /\ w_rc = r_commit
  /\ RecoveryClient

RecoveryNext ==
  \/ WGetRecoverySteps
  \/ WTransferStep
  \/ WCurrentWalStep
  \/ WReplicateCurrentWal
  \/ WRecoverCheck

RecoverySpec == RecoveryInit /\ [][RecoveryNext]_vars

\* Recovery of a replica while the MAIN makes a snapshot, which deletes the
\* snapshot it replaces and the WAL files it makes obsolete.
LockerInit ==
  /\ StorageWith(0)
  /\ w_rc = r_commit
  /\ RecoveryClient

LockerNext == RecoveryNext \/ CreateSnapshot

LockerSpec == LockerInit /\ [][LockerNext]_vars

(***************************************************************************)
(* The specification of recovery: the storage was closed on a directory    *)
(* as the writer leaves it, files may be lost, and the storage is opened   *)
(* again.                                                                  *)
(***************************************************************************)
DurabilityNext ==
  \/ \E i \in 1..MaxFinalized : LoseWalFile(i)
  \/ Recover

DurabilitySpec == RecoveryInit /\ [][DurabilityNext]_vars

(***************************************************************************)
(* The specification of a run of RecoverReplica beside the committing      *)
(* thread: the storage can still commit, and the argument of RecoverReplica *)
(* is any value the task may have been queued with.  The replica is ASYNC   *)
(* and its constructor has ended, so the actions left out are never enabled.*)
(***************************************************************************)
CurrentWalInit ==
  /\ RecoveryStorage
  /\ last_commit_timestamp_ < MaxCommits
  /\ w_rc \in {r_commit} \cup RecoverArgument(r_commit)
  /\ RecoveryClient

CurrentWalNext ==
  \/ MainStartTransaction
  \/ MainAppendDelta
  \/ MainAppendTransactionEnd
  \/ FinalizeNotStreaming
  \/ FinalizeAsync
  \/ MainCommitDone
  \/ WReconnect
  \/ HsHeartbeat(Worker)
  \/ HsAlign(Worker)
  \/ WFinalize
  \/ WRecoverReplica
  \/ RecoveryNext

CurrentWalSpec == CurrentWalInit /\ [][CurrentWalNext]_vars

(***************************************************************************)
(* client_lock_.  Every scope of the lock lies inside one step of the      *)
(* model, so the lock is free in every state; what a step did while it      *)
(* held the lock is read off the event of the step.                         *)
(***************************************************************************)
\* The calls that operate an RPC stream: opening it (rpc_client_->Stream),
\* writing to it and awaiting its response.
RpcStreamCalls == {"Stream", "Append", "AwaitResponse"}

\* The accesses to the replica state.
StateAccesses == {"replica_state_.load", "replica_state_.store"}

\* A mutation of LockedCalls: the catch blocks and the handshake store the
\* state without taking client_lock_.
LockedCallsOutsideCatch(e) ==
  CASE e.op = "StartTransactionReplication" ->
         {"replica_state_.load"}
           \cup (CASE e.sched = "crash" -> {}
                   [] e.from = READY /\ e.rpc = "opened" ->
                        {"Stream", "replica_state_.store"}
                   [] e.from = READY /\ e.rpc = "failed" ->
                        {"Stream", "replica_state_.store", "thread_pool_.AddTask"}
                   [] e.from = REPLICATING -> {"replica_state_.store"}
                   [] e.from = INVALID -> {"thread_pool_.AddTask"}
                   [] OTHER -> {})
    [] e.op = "FinalizeTransactionReplicationInternal"
         /\ e.rpc \in {"success", "non-success"} ->
         {"replica_state_.load", "replica_state_.store"}
           \cup (IF e.sched = "recover" THEN {"thread_pool_.AddTask"} ELSE {})
    [] e.op = "RecoverReplica" /\ e.sched = "done" ->
         {"last_commit_timestamp_.load", "replica_state_.store"}
    [] e.op = "RecoverReplica" /\ e.sched = "again" ->
         {"last_commit_timestamp_.load"}
    [] OTHER -> {}

\* The calls the step with event e made while it held client_lock_.
LockedCalls(e) ==
  CASE e.op = "StartTransactionReplication" ->
         \* the guard of line 146 lives to the return of the function
         {"replica_state_.load"}
           \cup (CASE e.sched = "crash" -> {}
                   [] e.from = READY /\ e.rpc = "opened" ->
                        {"Stream", "replica_state_.store"}
                   [] e.from = READY /\ e.rpc = "failed" ->
                        {"Stream", "replica_state_.store", "thread_pool_.AddTask"}
                   [] e.from = REPLICATING -> {"replica_state_.store"}
                   [] e.from = INVALID -> {"thread_pool_.AddTask"}
                   [] OTHER -> {})
    [] e.op = "IfStreamingTransaction" /\ e.rpc = "failed" ->
         {"replica_state_.store"}
    [] e.op = "FinalizeTransactionReplicationInternal" /\ e.rpc = "failed" ->
         {"replica_state_.store"}
    [] e.op = "FinalizeTransactionReplicationInternal"
         /\ e.rpc \in {"success", "non-success"} ->
         {"replica_state_.load", "replica_state_.store"}
           \cup (IF e.sched = "recover" THEN {"thread_pool_.AddTask"} ELSE {})
    [] e.op = "InitializeClient" -> {"replica_state_.store"}
    [] e.op = "TryInitializeClient" -> {"replica_state_.store"}
    [] e.op \in {"RecoverySnapshot", "RecoveryWals", "RecoveryFinalSnapshot",
                 "ReplicateCurrentWal"} /\ e.rpc = "failed" ->
         {"replica_state_.store"}
    [] e.op = "RecoverReplica" /\ e.sched = "done" ->
         {"last_commit_timestamp_.load", "replica_state_.store"}
    [] e.op = "RecoverReplica" /\ e.sched = "again" ->
         {"last_commit_timestamp_.load"}
    [] OTHER -> {}

\* The task added last to thread_pool_.
LastTask == thread_pool_[Len(thread_pool_)]

\* C5: StartTransactionReplication called while the state is READY opens a
\* new stream and moves the state to REPLICATING, or, when opening the stream
\* fails with an RPC failure, sets the state INVALID and queues a reconnect.
C5_StartInReady ==
  (ev.op = "StartTransactionReplication" /\ ev.from = READY) =>
    \/ /\ ev.rpc = "opened"
       /\ replica_state_ = REPLICATING
       /\ replica_stream_ = ReplicaStream(last_commit_timestamp_,
                                          CurrentWalSeqNum)
    \/ /\ ev.rpc = "failed"
       /\ replica_state_ = INVALID
       /\ Len(thread_pool_) > 0 /\ LastTask = ReconnectTask

\* C6: StartTransactionReplication called while the state is REPLICATING sets
\* the state to RECOVERY, leaves the stream as it is and adds no task.
C6_StartInReplicating ==
  [][(ev'.op = "StartTransactionReplication" /\ replica_state_ = REPLICATING)
       => /\ replica_state_' = RECOVERY
          /\ replica_stream_' = replica_stream_
          /\ thread_pool_' = thread_pool_]_vars

C6_Witness ==
  /\ ev.op = "StartTransactionReplication" /\ ev.from = REPLICATING
  /\ replica_state_ = RECOVERY
  /\ replica_stream_.open

\* C7: StartTransactionReplication called while the state is RECOVERY or
\* INVALID leaves the state and the stream unchanged; in RECOVERY it adds no
\* task, in INVALID it adds the reconnect task.
C7_StartInRecoveryOrInvalid ==
  [][(ev'.op = "StartTransactionReplication"
      /\ replica_state_ \in {RECOVERY, INVALID})
       => /\ replica_state_' = replica_state_
          /\ replica_stream_' = replica_stream_
          /\ replica_state_ = RECOVERY => thread_pool_' = thread_pool_
          /\ replica_state_ = INVALID =>
               thread_pool_' = Append(thread_pool_, ReconnectTask)]_vars

C7_Witness ==
  /\ ev.op = "StartTransactionReplication" /\ ev.from = INVALID
  /\ replica_state_ = INVALID
  /\ Len(thread_pool_) > 0 /\ LastTask = ReconnectTask

(***************************************************************************)
(* Properties of FinalizeTransactionReplicationInternal.                   *)
(***************************************************************************)
\* C8: when the finalize response reports success and the state is not
\* RECOVERY, finalization releases the stream and sets the state to READY.
C8_FinalizeSuccess ==
  (/\ ev.op = "FinalizeTransactionReplicationInternal"
   /\ ev.rpc = "success"
   /\ ev.from # RECOVERY)
    => replica_state_ = READY /\ replica_stream_ = NoStream

C8_Witness ==
  /\ ev.op = "FinalizeTransactionReplicationInternal"
  /\ ev.rpc = "success"
  /\ ev.from = REPLICATING
  /\ replica_state_ = READY
  /\ replica_stream_ = NoStream

\* C9: when the finalize response reports non-success, or the state is
\* RECOVERY when the response arrives, finalization sets the state to RECOVERY
\* and queues a RecoverReplica task that starts from the commit timestamp of
\* that response.
C9_FinalizeRecovery ==
  (/\ ev.op = "FinalizeTransactionReplicationInternal"
   /\ \/ ev.rpc = "non-success"
      \/ ev.rpc = "success" /\ ev.from = RECOVERY)
    => /\ replica_state_ = RECOVERY
       /\ Len(thread_pool_) > 0
       /\ LastTask = RecoverTask(ev.resp)

(***************************************************************************)
(* Properties of IfStreamingTransaction.                                   *)
(***************************************************************************)
\* C10: IfStreamingTransaction runs its callback only in the state
\* REPLICATING; in every other state it sends nothing and changes nothing; an
\* RPC failure of the callback sets the state INVALID and queues a reconnect.
C10_IfStreaming ==
  [][ev'.op = "IfStreamingTransaction"
       => IF replica_state_ # REPLICATING
            THEN UNCHANGED <<replica_state_, replica_stream_, thread_pool_,
                             failures, replicaVars>>
          ELSE \/ /\ replica_stream_'.deltas + (IF replica_stream_'.tx_end THEN 1 ELSE 0)
                       = replica_stream_.deltas + (IF replica_stream_.tx_end THEN 1 ELSE 0) + 1
                  /\ UNCHANGED <<replica_state_, thread_pool_>>
               \/ /\ replica_state_' = INVALID
                  /\ thread_pool_' = Append(thread_pool_, ReconnectTask)]_vars

C10_Witness ==
  /\ ev.op = "IfStreamingTransaction" /\ ev.rpc = "sent"
  /\ replica_state_ = REPLICATING
  /\ replica_stream_.tx_end

(***************************************************************************)
(* Commit ordering on the replica.                                         *)
(***************************************************************************)
\* C4: the replica applies the committed transactions in the order of their
\* commit timestamps and never a transaction whose predecessor it missed; a
\* stream is opened with the commit timestamp that precedes its transaction's.
C4_CommitOrdering ==
  /\ \A i \in 1..Len(r_log) : r_log[i] = i
  /\ (replica_stream_.open /\ replica_stream_.deltas > 0) =>
       replica_stream_.final_commit_timestamp
         = replica_stream_.previous_commit_timestamp + 1

C4_Witness ==
  /\ ev.op = "FinalizeTransactionReplicationInternal" /\ ev.rpc = "success"
  /\ Len(r_log) = MaxCommits
  /\ r_commit = MaxCommits

(***************************************************************************)
(* Convergence of RecoverReplica.                                          *)
(***************************************************************************)
\* RecoverReplica begins with the commit timestamp the replica is at, which is
\* not ahead of the MAIN's.
RecoveryStarts ==
  /\ ev.op = "RecoverReplica" /\ ev.sched = "none"
  /\ w_rc = r_commit
  /\ r_commit <= last_commit_timestamp_

\* RecoverReplica returns: the timestamp the replica reported is the MAIN's
\* last commit timestamp, and the state is READY.
RecoveryConverged ==
  /\ ev.op = "RecoverReplica" /\ ev.sched = "done"
  /\ w_rc = last_commit_timestamp_
  /\ r_commit = last_commit_timestamp_
  /\ replica_state_ = READY

\* C3: on a network that fails no RPC, a RecoverReplica that begins with a
\* replica not ahead of the MAIN reaches, after finitely many recovery RPCs,
\* the point where the replica's commit timestamp is the MAIN's last commit
\* timestamp and the state is READY.
C3_Convergence == RecoveryStarts ~> RecoveryConverged

C3_Witness ==
  /\ RecoveryConverged
  /\ failures = MaxRpcFailures
  /\ Len(r_log) = MaxCommits

(***************************************************************************)
(* Snapshot isolation and GC safety of the MVCC storage.                   *)
(***************************************************************************)
\* The committed state as of the transaction's start timestamp.
Snapshot(t) == committed_history[transactions[t].start_timestamp + 1]

\* C1: a read by transaction T of an object T did not write returns the state
\* produced by the most recent transaction that touched the object and
\* committed at or before T's start timestamp: a later commit is never
\* visible, an earlier one always.
C1_SnapshotIsolation ==
  \A t \in ActiveTransactions : \A gid \in Gids :
    ~Wrote(t, vertices[gid]) =>
      \A view \in View : Read(t, vertices[gid], view) = Snapshot(t)[gid]

C1_Witness ==
  \E t \in ActiveTransactions : \E gid \in Gids :
    /\ ~Wrote(t, vertices[gid])
    /\ transactions[t].start_timestamp < last_commit_timestamp_
    /\ Snapshot(t)[gid] # committed_history[1][gid]
    /\ Snapshot(t)[gid] # committed_history[Len(committed_history)][gid]
    /\ Read(t, vertices[gid], View_OLD) = Snapshot(t)[gid]

\* Every delta the GC step frees has a timestamp no active transaction
\* started before.
GcFreesSafely ==
  ev'.op = "Truncate" =>
    \A gid \in Gids : \A i \in 1..Len(vertices[gid].delta) :
      i > Len(vertices'[gid].delta) =>
        \A t \in ActiveTransactions :
          ~(transactions[t].start_timestamp < Timestamp(vertices[gid].delta[i].tx))

\* What every open transaction reads is what it would read without GC.
GcUnobservable ==
  \A t \in ActiveTransactions : \A gid \in Gids : \A view \in View :
    Read(t, vertices[gid], view) = Read(t, untruncated[gid], view)

\* C2: whenever the GC frees a delta no active transaction has a start
\* timestamp before the delta's timestamp, and a transaction that stays open
\* while the GC runs reads under View::OLD and View::NEW what it would read
\* without GC.
C2_GcSafety == []GcUnobservable /\ [][GcFreesSafely]_vars

C2_Witness ==
  /\ ev.op = "Truncate"
  /\ \E gid \in Gids :
       Len(vertices[gid].delta) < Len(untruncated[gid].delta)
  /\ \E t \in ActiveTransactions : \E gid \in Gids :
       /\ Wrote(t, vertices[gid])
       /\ Read(t, vertices[gid], View_OLD).found
       /\ ~Read(t, vertices[gid], View_NEW).found

(***************************************************************************)
(* Properties of FinalizeTransactionReplication.                           *)
(***************************************************************************)
\* The finalize RPC failed: the stream is gone, the state is INVALID and the
\* reconnect task is the one queued last.
FinalizeRpcFailed ==
  (ev.op = "FinalizeTransactionReplicationInternal" /\ ev.rpc = "failed")
    => /\ replica_stream_ = NoStream
       /\ replica_state_ = INVALID
       /\ Len(thread_pool_) > 0 /\ LastTask = ReconnectTask

\* FinalizeTransactionReplication called in a state other than REPLICATING
\* sends nothing and changes nothing of the client or the replica.
FinalizeNoOp ==
  (/\ ev'.op = "FinalizeTransactionReplication"
   /\ m_pc = "ended"
   /\ replica_state_ # REPLICATING)
    => UNCHANGED <<replica_state_, replica_stream_, thread_pool_, failures,
                   crashed, mode_, timeout_, timeout_dispatcher_, td_active,
                   td_finished, timeout_pool, replicaVars>>

\* C11: when awaiting the finalize response fails with an RPC failure the
\* stream is released, the state becomes INVALID and a reconnect task is
\* queued; FinalizeTransactionReplication is a no-op whenever the state is not
\* REPLICATING.
C11_FinalizeFailure == []FinalizeRpcFailed /\ [][FinalizeNoOp]_vars

C11_Witness ==
  /\ ev.op = "FinalizeTransactionReplicationInternal" /\ ev.rpc = "failed"
  /\ ev.from = REPLICATING
  /\ replica_stream_ = NoStream
  /\ replica_state_ = INVALID
  /\ Len(thread_pool_) > 0 /\ LastTask = ReconnectTask

(***************************************************************************)
(* Properties of RecoverReplica's handling of a failed RPC.                *)
(***************************************************************************)
\* The steps of RecoverReplica that send an RPC.
RecoveryStepOps ==
  {"RecoverySnapshot", "RecoveryWals", "RecoveryFinalSnapshot",
   "ReplicateCurrentWal"}

RecoveryStepFailed == ev.op \in RecoveryStepOps /\ ev.rpc = "failed"

\* After a failed recovery RPC the state is INVALID and the reconnect task is
\* the one queued last.
RecoveryFailureHandled ==
  RecoveryStepFailed
    => /\ replica_state_ = INVALID
       /\ Len(thread_pool_) > 0 /\ LastTask = ReconnectTask

\* The step that follows a failed recovery RPC neither sends another recovery
\* step nor ends the run with READY.
RecoveryAbortsAfterFailure ==
  RecoveryStepFailed
    => /\ ev'.op \notin RecoveryStepOps
       /\ ~(ev'.op = "RecoverReplica" /\ ev'.sched = "done"
            /\ replica_state_' = READY)

\* C12: when a recovery-step RPC of RecoverReplica fails the state becomes
\* INVALID, a reconnect task is queued and the run is aborted: no further
\* recovery step is sent and the run does not set READY afterwards.
C12_RecoveryFailure ==
  []RecoveryFailureHandled /\ [][RecoveryAbortsAfterFailure]_vars

\* The part of C12 that the code keeps: INVALID and the reconnect task.
C12_FailureHandled == RecoveryFailureHandled

\* A later step of the same run is sent after the failure.
C12_StepAfterFailure ==
  /\ ev.op \in RecoveryStepOps /\ ev.rpc = "success"
  /\ failures = MaxRpcFailures
  /\ replica_state_ = INVALID
  /\ Len(thread_pool_) > 0 /\ LastTask = ReconnectTask

(***************************************************************************)
(* Properties of the handshake.                                            *)
(***************************************************************************)
\* InitializeClient got its heartbeat answered and found no branching point.
HandshakeAligned == ev.op = "InitializeClient" /\ ev.sched # "branching"

\* C13: after a heartbeat with no branching point the state is READY when the
\* replica's commit timestamp equals the MAIN's last_commit_timestamp_, and
\* otherwise RECOVERY with a RecoverReplica task queued for the replica's
\* commit timestamp; after a failed heartbeat RPC the state is INVALID.
C13_HandshakeAlignment ==
  /\ HandshakeAligned =>
       IF ev.resp = last_commit_timestamp_
         THEN replica_state_ = READY
       ELSE /\ replica_state_ = RECOVERY
            /\ Len(thread_pool_) > 0
            /\ LastTask = RecoverTask(ev.resp)
  /\ (ev.op = "TryInitializeClient" /\ ev.rpc = "failed")
       => replica_state_ = INVALID

C13_Witness ==
  /\ HandshakeAligned
  /\ ev.resp = r_commit
  /\ r_commit < last_commit_timestamp_
  /\ replica_state_ = RECOVERY
  /\ LastTask = RecoverTask(r_commit)

\* The constructor has sent its heartbeat: the MAIN's epoch is the one the
\* handshakes compare with from here on.
HeartbeatSent == pc[Ctor] # "hs_start"

\* The replica is in another epoch than the MAIN, which the MAIN's history
\* does not hold or holds with another end than the replica's commit timestamp.
ForeignEpoch ==
  /\ r_epoch # epoch_id_
  /\ EpochEnd(epoch_history_, r_epoch) # r_commit

\* The replica the handshake refuses: a foreign epoch and a commit timestamp
\* other than the initial one.
BranchedReplica == ForeignEpoch /\ r_commit # kTimestampInitialId

\* The client has no state in which it sends and no stream.
NeverUsed == replica_state_ = INVALID /\ replica_stream_ = NoStream

\* C14 as stated: a replica whose heartbeat epoch differs from the MAIN's and
\* is absent from the MAIN's epoch history, or recorded there with another end
\* timestamp than the replica's commit timestamp, is unusable for good: the
\* client is never READY, REPLICATING or RECOVERY and nothing is sent to it.
C14_BranchingPoint ==
  /\ []((HeartbeatSent /\ ForeignEpoch) => NeverUsed)
  /\ [][(HeartbeatSent /\ ForeignEpoch)
          => (ForeignEpoch' /\ UNCHANGED replicaVars)]_vars

\* C14 amended: the same for a replica whose commit timestamp is, in addition,
\* not the initial one (kTimestampInitialId); the condition lasts, so the
\* replica stays unusable from the first heartbeat on.
C14_BranchingPointAmended ==
  /\ []((HeartbeatSent /\ BranchedReplica) => NeverUsed)
  /\ [][(HeartbeatSent /\ BranchedReplica)
          => (BranchedReplica' /\ UNCHANGED replicaVars)]_vars

\* A handshake has found the branching point while the MAIN is ahead.
C14_Witness ==
  /\ ev.op = "InitializeClient" /\ ev.sched = "branching"
  /\ HeartbeatSent /\ BranchedReplica
  /\ NeverUsed

(***************************************************************************)
(* Properties of the finalize with a timeout.                              *)
(***************************************************************************)
\* The committing thread waits and `active` was cleared while the finalize
\* task is still in the queue: it was the timeout that cleared it.
TimedOut ==
  /\ m_pc = "waiting"
  /\ ~td_active
  /\ \E i \in 1..Len(thread_pool_) : thread_pool_[i] = FinalizeNotifyTask

\* The step in which the committing thread wakes from its wait.
Wakes == m_pc = "waiting" /\ m_pc' = "finalized"

\* Once the mode is ASYNC and the timeout is cleared they stay so.
StaysAsync ==
  (constructed /\ mode_ = ASYNC) => (mode_' = ASYNC /\ timeout_' = timeout_)

\* C15 as stated: once a finalize of a SYNC replica with a timeout times out
\* the mode becomes ASYNC and the timeout is cleared, and the mode is ASYNC in
\* every later state.
C15_DemotionPermanent ==
  /\ [][(TimedOut /\ Wakes) => (mode_' = ASYNC /\ ~timeout_')]_vars
  /\ [][StaysAsync]_vars

\* The part of C15 that the code keeps: a replica that is ASYNC stays ASYNC
\* and gets no timeout again.
C15_StaysAsync == [][StaysAsync]_vars

\* A demotion has happened: the committing thread woke after the timeout and
\* found the transaction still REPLICATING.
C15_Demoted ==
  /\ ev.op = "FinalizeTransactionReplication" /\ ev.sched = "reset_dispatcher"
  /\ mode_ = ASYNC /\ ~timeout_
  /\ config_timeout

(***************************************************************************)
(* The specification of a SYNC replica with a timeout whose finalize task  *)
(* may never run: the committing thread and the timeout thread are         *)
(* scheduled, the worker of thread_pool_ and the constructor need not be.  *)
(***************************************************************************)
TimeoutInit == Init /\ mode_ = SYNC /\ config_timeout

TimeoutSpec ==
  TimeoutInit /\ [][Next]_vars
    /\ WF_vars(CommitProgress) /\ WF_vars(TimeoutProgress)

\* FinalizeTransactionReplication is about to take its timeout branch.
FinalizeWithTimeoutCalled ==
  /\ m_pc = "ended"
  /\ constructed /\ replica_state_ = REPLICATING
  /\ mode_ = SYNC /\ timeout_

\* The call has returned, or a CHECK has ended the process.
FinalizeReturned == m_pc = "finalized" \/ crashed

\* The finalize task and the timeout task are started together.
StartsBoth ==
  (FinalizeWithTimeoutCalled /\ m_pc' = "waiting")
    => /\ thread_pool_' = Append(thread_pool_, FinalizeNotifyTask)
       /\ timeout_pool' = timeout_pool + 1
       /\ td_active'

\* The committing thread wakes only after one of the two cleared `active`.
WakesWhenInactive == Wakes => ~td_active

StepsComputed == ev.op = "GetRecoverySteps" /\ ev.sched = "none"

NewestWal == wal_files[Len(wal_files)]

\* The steps of one type, in the order they are in.
StepsOfType(type) ==
  LET Is(step) == step.type = type
  IN SelectSeq(w_steps, Is)

\* The index at which the run of consecutive sequence numbers that ends at the
\* newest finalized WAL begins.
RunStart(wals) ==
  CHOOSE i \in 1..Len(wals) :
    /\ \A k \in i..(Len(wals) - 1) : wals[k + 1].seq_num - wals[k].seq_num <= 1
    /\ i > 1 => wals[i].seq_num - wals[i - 1].seq_num > 1

\* The run reaches a WAL that begins at or before replica_commit, or the WAL
\* with sequence number 0.
ChainCovers(wals, replica_commit) ==
  /\ Len(wals) > 0
  /\ \E i \in RunStart(wals)..Len(wals) :
       wals[i].from_timestamp <= replica_commit \/ wals[i].seq_num = 0

\* The WALs of the run that hold a commit newer than replica_commit.
NewerWalsOfRun(wals, replica_commit) ==
  LET Newer(w) == w.to_timestamp > replica_commit
  IN SelectSeq(Tail_From(wals, RunStart(wals)), Newer)

\* The WAL files the WAL steps of w_steps carry, in the order they are sent.
RECURSIVE WalsOfSteps(_)
WalsOfSteps(steps) ==
  IF Len(steps) = 0 THEN <<>>
  ELSE (IF Head(steps).type = "RecoveryWals" THEN Head(steps).wals ELSE <<>>)
         \o WalsOfSteps(Tail(steps))

NoChain == StepsComputed /\ Len(wal_files) > 0 /\ ~ChainCovers(wal_files, ev.resp)

\* The finalized WALs that hold a commit newer than the latest snapshot.
WalsAfterSnapshot ==
  LET After(w) == w.to_timestamp > LatestSnapshot(snapshot_files)
  IN SelectSeq(wal_files, After)

\* C18 as stated: when no sequential WAL chain covers replica_commit,
\* GetRecoverySteps returns the latest snapshot as the first step and the WAL
\* files sent after it are every finalized WAL whose to_timestamp is greater
\* than the snapshot's start_timestamp.
C18_SnapshotRecovery ==
  NoChain
    => /\ w_steps[1] = RecoverySnapshot(LatestSnapshot(snapshot_files))
       /\ WalsOfSteps(w_steps) = WalsAfterSnapshot

\* What the snapshot branch sends: the WALs after the snapshot, with the WAL
\* before them when the first of them begins after the snapshot, or the newest
\* finalized WAL when there is none after the snapshot.
WalsWithSnapshot ==
  LET after == WalsAfterSnapshot
      before == Len(wal_files) - Len(after)
  IN IF after = <<>> THEN <<NewestWal>>
     ELSE IF after[1].from_timestamp > LatestSnapshot(snapshot_files)
       THEN <<wal_files[before]>> \o after
     ELSE after

\* C18 amended: the latest snapshot is the first step, and the WAL step after
\* it holds every finalized WAL whose to_timestamp is greater than the
\* snapshot's start_timestamp, preceded by the finalized WAL before them when
\* the first of them begins after the snapshot; when no finalized WAL is newer
\* than the snapshot the newest finalized WAL is sent.
C18_SnapshotRecoveryAmended ==
  NoChain
    => /\ w_steps[1] = RecoverySnapshot(LatestSnapshot(snapshot_files))
       /\ w_steps[2] = RecoveryWals(WalsWithSnapshot)
       /\ WalsOfSteps(w_steps) = WalsWithSnapshot
       /\ StepsOfType("RecoverySnapshot") = <<w_steps[1]>>

\* The snapshot was taken between two finalized WALs: the one before it is
\* sent with the one after it.
C18_Witness ==
  /\ NoChain
  /\ Len(WalsAfterSnapshot) > 0
  /\ WalsAfterSnapshot[1].from_timestamp > LatestSnapshot(snapshot_files)
  /\ Len(WalsOfSteps(w_steps)) = Len(WalsAfterSnapshot) + 1
  /\ w_steps[1].type = "RecoverySnapshot"

\* Neither a current WAL nor a finalized WAL holds a commit newer than
\* replica_commit.
OnlySnapshotLeft ==
  /\ StepsComputed
  /\ ~wal_file_.exists
  /\ Len(wal_files) = 0 \/ NewestWal.to_timestamp <= ev.resp

\* The step that sends the snapshot's timestamp transfers no data, and a
\* successful response gives replica_commit.
FinalSnapshotStep ==
  ev'.op = "RecoveryFinalSnapshot"
    => /\ r_log' = r_log
       /\ ev'.rpc = "success" => (w_rc' = r_commit' /\ ev'.resp = r_commit')

\* C19: with no current WAL, and no finalized WAL or a newest finalized WAL
\* whose to_timestamp is <= replica_commit, GetRecoverySteps returns exactly
\* one step, which carries the latest snapshot's start_timestamp; running it
\* transfers no file, and after a successful response replica_commit is the
\* commit timestamp the replica reported.
C19_FinalSnapshotOnly ==
  /\ [](OnlySnapshotLeft
          => /\ LatestSnapshot(snapshot_files) # NoSnapshot
             /\ w_steps =
                  <<RecoveryFinalSnapshot(LatestSnapshot(snapshot_files))>>)
  /\ [][FinalSnapshotStep]_vars

\* The replica was behind the snapshot: it is now at the snapshot's timestamp
\* and got no data.
C19_Witness ==
  /\ ev.op = "RecoveryFinalSnapshot" /\ ev.rpc = "success"
  /\ ~wal_file_.exists
  /\ w_rc = r_commit
  /\ r_commit = LatestSnapshot(snapshot_files)
  /\ Len(r_log) < r_commit

(***************************************************************************)
(* Properties of the current-WAL step of RecoverReplica.                   *)
(***************************************************************************)
\* The worker is at a RecoveryCurrentWal step.
AtCurrentWalStep ==
  /\ pc[Worker] = "rec_step"
  /\ Len(w_steps) > 0
  /\ Head(w_steps).type = "RecoveryCurrentWal"

\* The storage has an open WAL with the sequence number the step carries.
StillCurrent ==
  wal_file_.exists /\ wal_file_.seq_num = Head(w_steps).seq

\* The current WAL is streamed only while it is the WAL the step was made for.
StreamsObservedWal ==
  /\ pc[Worker] = "rec_curwal"
       => (Len(w_steps) > 0 /\ Head(w_steps).type = "RecoveryCurrentWal"
           /\ StillCurrent)
  /\ ev.op = "ReplicateCurrentWal" => pc[Worker] = "rec_step"

\* The step taken for a WAL that is no longer the current one sends nothing.
SkipsReplacedWal ==
  (AtCurrentWalStep /\ ~StillCurrent /\ w_steps' # w_steps)
    => /\ UNCHANGED <<replicaVars, w_rc, wal_file_, replica_state_>>
       /\ ev'.op = "RecoveryCurrentWal" /\ ev'.sched = "skipped"
       /\ pc'[Worker] = "rec_step"

\* ReplicateCurrentWal is sent only from the step that found the WAL current.
SendsOnlyWhenCurrent ==
  ev'.op = "ReplicateCurrentWal" => (pc[Worker] = "rec_curwal" /\ StillCurrent)

\* After a skipped step the loop goes round again.
RecomputesAfterSkip ==
  (ev.op = "RecoveryCurrentWal" /\ ev.sched = "skipped"
   /\ ev'.op = "RecoverReplica")
    => (ev'.sched = "again" /\ pc'[Worker] = "rec_get")

\* C20: the current WAL is streamed only if, when the step runs, the storage
\* still has an open WAL with the sequence number seen when the steps were
\* computed; if the WAL was finalized or replaced in between nothing is sent
\* for the step and the recovery loop computes its steps again.
C20_CurrentWal ==
  /\ []StreamsObservedWal
  /\ [][SkipsReplacedWal /\ SendsOnlyWhenCurrent /\ RecomputesAfterSkip]_vars

\* The part of C20 on what is sent: the current WAL is streamed only while it
\* is still the open one, and a skipped step sends nothing.
C20_StreamsOnlyCurrent ==
  /\ []StreamsObservedWal
  /\ [][SkipsReplacedWal /\ SendsOnlyWhenCurrent]_vars

\* The current WAL was finalized between GetRecoverySteps and the step, the
\* step was skipped, and the loop ended without computing its steps again.
C20_SkippedAndReady ==
  /\ ev.op = "RecoverReplica" /\ ev.sched = "done"
  /\ replica_state_ = READY
  /\ r_commit < last_commit_timestamp_
  /\ ~wal_file_.exists

(***************************************************************************)
(* Properties of the flushing of the current WAL.                          *)
(***************************************************************************)
\* The worker is between DisableFlushing and the end of ReplicateCurrentWal.
TransferringCurrentWal == pc[Worker] = "rec_curwal"

\* The open WAL has its flushing disabled.
FlushingDisabled == wal_file_.exists /\ ~wal_file_.flushing

\* The step in which the transfer attempt of the current WAL ends.
TransferAttemptEnds == TransferringCurrentWal /\ pc'[Worker] # "rec_curwal"

\* C21: flushing of the current WAL is disabled only during its transfer:
\* when the transfer attempt ends EnableFlushing has been called on the WAL,
\* and the WAL never has its flushing disabled outside a transfer.
C21_FlushingRestored ==
  /\ [](FlushingDisabled => TransferringCurrentWal)
  /\ [][TransferAttemptEnds => (wal_file_'.exists /\ wal_file_'.flushing)]_vars

\* The part of C21 that holds: flushing is disabled only by the current-WAL
\* step, and a transfer that is answered enables it again.
C21_EnabledAfterAnswer ==
  /\ [][(~FlushingDisabled /\ FlushingDisabled')
          => (ev'.op = "DisableFlushing" /\ pc'[Worker] = "rec_curwal")]_vars
  /\ [][(TransferAttemptEnds /\ ev'.rpc = "success")
          => (wal_file_'.exists /\ wal_file_'.flushing)]_vars

\* The transfer of the current WAL failed and the WAL is left with its
\* flushing disabled.
C21_LeftDisabled ==
  /\ ev.op = "ReplicateCurrentWal" /\ ev.rpc = "failed"
  /\ FlushingDisabled
  /\ ~TransferringCurrentWal

(***************************************************************************)
(* Properties of client_lock_.                                             *)
(***************************************************************************)
\* C22: no RPC stream operation (opening a stream, writing to it, awaiting
\* its response) is performed while client_lock_ is held.
C22_NoRpcUnderLock == LockedCalls(ev) \cap RpcStreamCalls = {}

\* The second half of C22: the lock is held only around reads and writes of
\* the replica state.
C22_OnlyStateUnderLock == LockedCalls(ev) \subseteq StateAccesses

\* The part of C22 that holds: the lock is never held while a stream is
\* written to or its response awaited.
C22_NoWriteOrWaitUnderLock ==
  LockedCalls(ev) \cap {"Append", "AwaitResponse"} = {}

\* The stream of a transaction was opened with client_lock_ held.
C22_OpenedUnderLock ==
  /\ ev.op = "StartTransactionReplication" /\ ev.rpc = "opened"
  /\ replica_stream_.open
  /\ "Stream" \in LockedCalls(ev)

(***************************************************************************)
(* Properties of PreviousPtr.                                              *)
(***************************************************************************)
\* The last Set, which passed its CHECK, stored a pointer of this type.
WasSet(type) == previous_ptr.set /\ previous_ptr.type = type

\* C23: after Set(p) with p a Delta, Vertex or Edge pointer whose two low bits
\* are zero, GetType returns DELTA, VERTEX or EDGE respectively and the getter
\* of that type returns exactly p; the getter of any other type fails its
\* CHECK, and a Set with a pointer whose two low bits are not zero fails its
\* CHECK.
C23_TagRoundTrip ==
  /\ \A type \in PointerType :
       WasSet(type) =>
         /\ previous_ptr.op = "GetType"
              => previous_ptr.result = Result(TRUE, type, 0)
         /\ (previous_ptr.op = "Get" /\ previous_ptr.get = type)
              => previous_ptr.result = Result(TRUE, "none", previous_ptr.pointer)
         /\ (previous_ptr.op = "Get" /\ previous_ptr.get # type)
              => ~previous_ptr.result.ok
  /\ previous_ptr.op = "Set"
       => (previous_ptr.result.ok <=> previous_ptr.pointer % 4 = 0)
  /\ (previous_ptr.op = "Set" /\ previous_ptr.pointer % 4 = 0)
       => previous_ptr.set

\* A non-null Vertex pointer was set and GetVertex gave it back.
C23_Witness ==
  /\ WasSet("VERTEX")
  /\ previous_ptr.pointer > 0
  /\ previous_ptr.op = "Get" /\ previous_ptr.get = "VERTEX"
  /\ previous_ptr.result.ok
  /\ previous_ptr.storage_ # previous_ptr.pointer

(***************************************************************************)
(* Properties of the delta chains.                                         *)
(***************************************************************************)
\* The timestamps met when `next` is followed from the chain head.
ChainTimestamps(vertex) ==
  [i \in 1..Len(vertex.delta) |-> Timestamp(vertex.delta[i].tx)]

\* The positions of a chain that have a successor.
Links(vertex) == 1..(Len(vertex.delta) - 1)

\* C24: in every reachable state and for every object, following `next` from
\* the chain head the delta timestamps strictly decrease until the end of the
\* chain.
C24_ChainMonotonic ==
  \A gid \in Gids : \A i \in Links(vertices[gid]) :
    ChainTimestamps(vertices[gid])[i] > ChainTimestamps(vertices[gid])[i + 1]

\* C24 amended: the timestamps never increase along the chain, and they
\* strictly decrease from a delta to the next one unless both were written by
\* the same transaction, whose deltas share one timestamp.
C24_ChainMonotonicAmended ==
  \A gid \in Gids : \A i \in Links(vertices[gid]) :
    LET chain == vertices[gid].delta
        ts == ChainTimestamps(vertices[gid])
    IN /\ ts[i] >= ts[i + 1]
       /\ chain[i].tx # chain[i + 1].tx => ts[i] > ts[i + 1]
       /\ chain[i].tx = chain[i + 1].tx => ts[i] = ts[i + 1]

\* A chain that holds two deltas of one transaction above a delta of another.
C24_Witness ==
  \E gid \in Gids :
    LET chain == vertices[gid].delta
    IN /\ Len(chain) >= 3
       /\ chain[1].tx = chain[2].tx
       /\ chain[2].tx # chain[3].tx

(***************************************************************************)
(* Properties of the views inside one transaction.                         *)
(***************************************************************************)
\* What transaction t finds of every vertex under a view.
ViewOf(t, view) == [gid \in Gids |-> Read(t, vertices[gid], view)]

\* The step is AdvanceCommand of transaction t.
Advances(t) ==
  /\ transactions[t].state = "active"
  /\ transactions'[t] = [transactions[t] EXCEPT !.command_id = @ + 1]

\* The step is a write of transaction t to vertex gid.
Writes(t, gid) ==
  /\ ev'.op \in {"CreateVertex", "DeleteVertex", "AddLabel"}
  /\ vertices'[gid] # vertices[gid]
  /\ Head(vertices'[gid].delta).tx = t

\* After AdvanceCommand View::OLD shows what View::NEW showed at the end of
\* the previous command, and View::NEW shows as much.
AdvanceShowsPrevious ==
  \A t \in TxIds :
    Advances(t) => /\ ViewOf(t, View_OLD)' = ViewOf(t, View_NEW)
                   /\ ViewOf(t, View_NEW)' = ViewOf(t, View_NEW)

\* A write of the current command shows under View::NEW and leaves View::OLD
\* as it was.
WriteShowsUnderNew ==
  \A t \in TxIds, gid \in Gids :
    Writes(t, gid) =>
      /\ ViewOf(t, View_OLD)' = ViewOf(t, View_OLD)
      /\ ViewOf(t, View_NEW)'[gid] = Current(vertices[gid])'
      /\ ViewOf(t, View_NEW)'[gid] # ViewOf(t, View_NEW)[gid]

\* Transaction t created the vertex in an earlier command and deleted it in
\* the current one.
CreatedThenDeleted(t, vertex) ==
  /\ transactions[t].state = "active"
  /\ Len(vertex.delta) = 2
  /\ vertex.delta[1] = Delta("RECREATE_OBJECT", t, transactions[t].command_id)
  /\ vertex.delta[2].action = "DELETE_OBJECT" /\ vertex.delta[2].tx = t
  /\ vertex.delta[2].command_id < transactions[t].command_id

\* Transaction t added the label in the current command.
LabelledNow(t, vertex) ==
  /\ transactions[t].state = "active"
  /\ vertex.delta # <<>>
  /\ Head(vertex.delta) = Delta("REMOVE_LABEL", t, transactions[t].command_id)

\* The two cases of the test: found under OLD and not under NEW; the label
\* under NEW and none under OLD.
ViewsOfTest ==
  \A t \in TxIds, gid \in Gids :
    /\ CreatedThenDeleted(t, vertices[gid])
         => /\ Read(t, vertices[gid], View_OLD).found
            /\ ~Read(t, vertices[gid], View_NEW).found
    /\ LabelledNow(t, vertices[gid])
         => /\ Read(t, vertices[gid], View_NEW).label
            /\ ~Read(t, vertices[gid], View_OLD).label

\* C25: after AdvanceCommand View::OLD shows the state as of the end of the
\* previous command, this transaction's own earlier writes included, and
\* View::NEW shows the writes of the current command as well; a vertex created
\* in one command and deleted in the next is found under OLD and not under
\* NEW, and a label added in the current command shows under NEW and not
\* under OLD.
C25_Views ==
  /\ [][AdvanceShowsPrevious /\ WriteShowsUnderNew]_vars
  /\ []ViewsOfTest

\* A vertex created in command 0 and deleted in command 1 of a transaction
\* that is still active.
C25_Witness ==
  \E t \in TxIds, gid \in Gids : CreatedThenDeleted(t, vertices[gid])

(***************************************************************************)
(* Properties of the write conflicts.                                      *)
(***************************************************************************)
\* The transactions with a delta in the chain of the vertex that have not
\* committed.
UncommittedWriters(vertex) ==
  {vertex.delta[i].tx : i \in 1..Len(vertex.delta)}
    \ {t \in TxIds : transactions[t].state = "committed"}

\* The head version of the vertex was written by another transaction that has
\* not committed, or that committed after transaction t began.
Conflict(t, vertex) ==
  /\ vertex.delta # <<>>
  /\ LET writer == transactions[Head(vertex.delta).tx]
     IN /\ Head(vertex.delta).tx # t
        /\ \/ writer.state = "active"
           \/ /\ writer.state = "committed"
              /\ writer.commit_timestamp > transactions[t].start_timestamp

\* A write that fails leaves the objects and the transactions as they were.
FailedWrite ==
  /\ ev'.op = "SerializationError"
  /\ UNCHANGED <<vertices, transactions, last_commit_timestamp_>>

\* Every write of a transaction to a vertex in conflict fails, and only those.
ConflictsFail ==
  \A t \in TxIds, gid \in Gids :
    /\ ((DeleteVertex(t, gid) \/ AddLabel(t, gid)) /\ Conflict(t, vertices[gid]))
         => FailedWrite
    /\ Writes(t, gid) => ~Conflict(t, vertices[gid])

\* C26: for any object at most one uncommitted transaction holds deltas in its
\* chain; a transaction that tries to write an object whose head version was
\* written by another uncommitted transaction, or committed after the writer's
\* start timestamp, gets SerializationError and the object is left unchanged.
C26_WriteConflicts ==
  /\ [](\A gid \in Gids : Cardinality(UncommittedWriters(vertices[gid])) <= 1)
  /\ [][ConflictsFail]_vars

\* A write has just failed on a vertex whose head version was committed after
\* the writer began, and another on a vertex held by an uncommitted writer is
\* possible.
C26_Witness ==
  /\ ev.op = "SerializationError"
  /\ \E t \in TxIds, gid \in Gids :
       /\ transactions[t].state = "active"
       /\ Read(t, vertices[gid], View_NEW).found
       /\ Conflict(t, vertices[gid])
       /\ transactions[Head(vertices[gid].delta).tx].state = "committed"

(***************************************************************************)
(* Properties of Abort.                                                    *)
(***************************************************************************)
\* The step is Abort of transaction t.
Aborts(t) ==
  /\ transactions[t].state = "active"
  /\ transactions'[t].state = "aborted"

\* The committed state of the vertex: no transaction but the one that holds
\* it can have written it since, so it is the state before the first write of
\* the transaction that holds it.
LastCommitted(gid) == committed_history[Len(committed_history)][gid]

\* Transaction t created the vertex.
CreatedBy(t, vertex) ==
  /\ vertex.delta # <<>>
  /\ vertex.delta[Len(vertex.delta)] \in
       {Delta("DELETE_OBJECT", t, c) : c \in 0..MaxCommands}

\* The chain without the deltas of transaction t.
WithoutDeltasOf(t, chain) == SelectSeq(chain, LAMBDA delta : delta.tx # t)

AbortUndoes ==
  \A t \in TxIds :
    Aborts(t) =>
      /\ t \notin ActiveTransactions'
      /\ \A gid \in Gids :
           /\ ~Wrote(t, vertices'[gid])
           /\ vertices'[gid].delta = WithoutDeltasOf(t, vertices[gid].delta)
           /\ Wrote(t, vertices[gid])
                => Current(vertices'[gid]) = LastCommitted(gid)
           /\ ~Wrote(t, vertices[gid]) => vertices'[gid] = vertices[gid]
           /\ CreatedBy(t, vertices[gid])
                => /\ ~Current(vertices'[gid]).found
                   /\ \A u \in TxIds \ {t}, view \in View :
                        transactions[u].state = "active"
                          => ~Read(u, vertices[gid], view)'.found

\* C27: after Abort(tx) every object tx wrote has the state it had before
\* tx's first write, the objects tx created do not exist for any other or
\* later transaction, tx's deltas are unlinked from the chains, and tx is no
\* longer in the active set.
C27_AbortUndoes == [][AbortUndoes]_vars

\* A transaction that created a vertex has aborted: nothing was ever
\* committed, and the vertex is left deleted with an empty chain.
C27_Witness ==
  /\ ev.op = "Abort"
  /\ Len(committed_history) = 1
  /\ \E gid \in Gids :
       /\ vertices[gid].state = "present"
       /\ vertices[gid].deleted
       /\ vertices[gid].delta = <<>>
  /\ \E u \in TxIds : transactions[u].state = "active"

(***************************************************************************)
(* Properties of recovery.                                                 *)
(***************************************************************************)
\* The committed state of the storage that wrote the files.
CommittedState == 1..last_commit_timestamp_

\* The lost segments that held an entry newer than the latest snapshot.
LostAfterSnapshot ==
  {wal \in recovered.lost : wal.to_timestamp > SnapshotStart(snapshot_files)}

\* The sequence numbers between the snapshot and the latest commit are not
\* contiguous: a segment newer than the snapshot is missing below a segment
\* that is there.
GapAfterSnapshot ==
  \E wal \in LostAfterSnapshot :
    \E i \in 1..Len(WalSegments) : WalSegments[i].seq_num > wal.seq_num

\* C28: recovery from the latest snapshot and the contiguous WAL chain after
\* it, replaying the entries newer than the snapshot, yields the committed
\* state; recovery fails instead of producing a state when the WAL sequence
\* numbers between the snapshot and the latest commit are not contiguous.
C28_DurabilityRoundTrip ==
  recovered.done =>
    /\ LostAfterSnapshot = {}
         => (recovered.ok /\ recovered.commits = CommittedState)
    /\ GapAfterSnapshot => ~recovered.ok
    /\ ~recovered.ok => recovered.commits = {}

\* Recovery from a snapshot and two segments, the older of which is skipped.
C28_Witness ==
  /\ recovered.done /\ recovered.ok /\ recovered.lost = {}
  /\ snapshot_files # {}
  /\ Len(WalSegments) >= 2
  /\ WalSegments[1].to_timestamp <= SnapshotStart(snapshot_files)
  /\ last_commit_timestamp_ > SnapshotStart(snapshot_files)

\* Recovery failed on a directory with a gap.
C28_FailedOnGap == recovered.done /\ ~recovered.ok /\ GapAfterSnapshot

\* The round trip over the directories the writer of Spec leaves between two
\* commits.
C28_RoundTripOfWriter ==
  (m_pc = "idle" /\ ~crashed)
    => RecoverData(snapshot_files, WalSegments)
         = [ok |-> TRUE, commits |-> CommittedState]

\* The entries of an edge list whose other end is not the given vertex.
NotTo(links, vertex) == {l \in links : l.vertex # vertex}

\* The vertices found under View::NEW.
Surviving(g) == {v \in GraphGids : Found(g, v)}

\* A step that detach-deletes the vertex leaves it not found, leaves no
\* surviving vertex with an edge to or from it, and leaves every other edge
\* of the surviving vertices in place.
DetachRemoves(vertex) ==
  DetachDeleteVertex(vertex) =>
    /\ ~Found(graph', vertex)
    /\ Surviving(graph') = Surviving(graph) \ {vertex}
    /\ \A v \in Surviving(graph') :
         /\ graph'.vertices[v].in_edges
              = NotTo(graph.vertices[v].in_edges, vertex)
         /\ graph'.vertices[v].out_edges
              = NotTo(graph.vertices[v].out_edges, vertex)

\* C29: DetachDeleteVertex removes the vertex together with every adjacent
\* edge: afterwards, under View::NEW, the vertex is not found and no
\* surviving vertex has an in-edge or out-edge whose other end is the
\* deleted vertex, while the edges between two surviving vertices are
\* untouched.
C29_DetachDelete == [][\A vertex \in GraphGids : DetachRemoves(vertex)]_vars

\* C29: a vertex with adjacent edges was detach-deleted while an edge between
\* two surviving vertices exists.
C29_Witness ==
  /\ graph.removed # {}
  /\ \E v \in GraphGids : ~Found(graph, v)
  /\ \E v \in Surviving(graph) : graph.vertices[v].out_edges # {}

\* C29: no surviving vertex has an edge whose other end is not found, and
\* every edge is listed at both of its ends.
C29_NoDanglingEdge ==
  \A v \in Surviving(graph) :
    /\ \A l \in graph.vertices[v].out_edges :
         /\ Found(graph, l.vertex)
         /\ Link(l.edge_type, v, l.edge) \in graph.vertices[l.vertex].in_edges
    /\ \A l \in graph.vertices[v].in_edges :
         /\ Found(graph, l.vertex)
         /\ Link(l.edge_type, v, l.edge) \in graph.vertices[l.vertex].out_edges

\* The kind of a value, int and double being the one kind of numbers.
Kind(value) == IF value.type \in {"Int", "Double"} THEN "Number" ELSE value.type

\* The kinds in their order: null, bool, number, string, list, map.
KindOrder(value) ==
  CASE Kind(value) = "Null" -> 0
    [] Kind(value) = "Bool" -> 1
    [] Kind(value) = "Number" -> 2
    [] Kind(value) = "String" -> 3
    [] Kind(value) = "List" -> 4
    [] Kind(value) = "Map" -> 5

\* Exactly one of a < b, a == b, b < a was found.
ExactlyOne(i, j) ==
  /\ compared.less[i][j] \/ compared.equal[i][j] \/ compared.less[j][i]
  /\ ~(compared.less[i][j] /\ compared.equal[i][j])
  /\ ~(compared.less[i][j] /\ compared.less[j][i])
  /\ ~(compared.equal[i][j] /\ compared.less[j][i])

\* < is transitive, and equal values may stand for one another.
Transitive(i, j, k) ==
  /\ compared.less[i][j] /\ compared.less[j][k] => compared.less[i][k]
  /\ compared.equal[i][j] /\ compared.equal[j][k] => compared.equal[i][k]
  /\ compared.equal[i][j] /\ compared.less[j][k] => compared.less[i][k]
  /\ compared.less[i][j] /\ compared.equal[j][k] => compared.less[i][k]

\* Values of different kinds are not equal and are ordered by kind.
ByKind(i, j) ==
  LET a == compared.values[i]
      b == compared.values[j]
  IN Kind(a) # Kind(b) =>
       /\ ~compared.equal[i][j]
       /\ compared.less[i][j] <=> KindOrder(a) < KindOrder(b)

\* An int and a double compare as numbers, alone and as the item of a list.
Numerically(i, j) ==
  LET a == compared.values[i]
      b == compared.values[j]
      AsNumbers(x, y) ==
        /\ compared.equal[i][j] <=> x.number = y.number
        /\ compared.less[i][j] <=> x.number < y.number
  IN /\ Kind(a) = "Number" /\ Kind(b) = "Number" => AsNumbers(a, b)
     /\ (/\ a.type = "List" /\ b.type = "List"
         /\ Len(a.list) = 1 /\ Len(b.list) = 1) =>
          AsNumbers(a.list[1], b.list[1])

\* C30: PropertyValue ordering is a strict total order consistent with
\* equality: of a < b, a == b, b < a exactly one holds, < is transitive,
\* values of different kinds are never equal and are ordered by kind (null,
\* bool, int or double, string, list, map), and an int and a double compare
\* numerically, also inside lists.
C30_TotalOrder ==
  compared.done =>
    /\ \A i \in 1..3, j \in 1..3 :
         ExactlyOne(i, j) /\ ByKind(i, j) /\ Numerically(i, j)
    /\ \A i \in 1..3, j \in 1..3, k \in 1..3 : Transitive(i, j, k)

\* C30: the int 2, the double 2.0 and a list were compared, and so were the
\* lists [1], [1.0] and [1.5].
C30_Witness ==
  /\ compared.done
  /\ compared.values[1] = IntValue(2)
  /\ compared.values[2] = DoubleValue(4)
  /\ compared.values[3].type = "List"
  /\ compared.equal[1][2] /\ ~compared.less[1][2] /\ ~compared.less[2][1]
  /\ compared.less[1][3]

\* C30: the lists [1], [1.0] and [1.5] were compared: the first two are
\* equal and both are less than the third.
C30_NestedNumbers ==
  /\ compared.done
  /\ compared.values = <<ListValue(<<IntValue(1)>>),
                         ListValue(<<DoubleValue(2)>>),
                         ListValue(<<DoubleValue(3)>>)>>
  /\ compared.equal[1][2]
  /\ compared.less[1][3] /\ compared.less[2][3]

(***************************************************************************)
(* Properties of the transaction engine's timestamps.                      *)
(***************************************************************************)
CommittedTransactions == {t \in TxIds : transactions[t].state = "committed"}

\* The transaction the step commits gets a timestamp above that of every
\* transaction committed before it.
CommitsLater(t) ==
  (transactions[t].state = "active" /\ transactions'[t].state = "committed")
    => \A u \in CommittedTransactions :
         transactions[u].commit_timestamp < transactions'[t].commit_timestamp

\* The transaction the step begins starts at or after every commit made
\* before it.
BeginsAfter(t) ==
  (transactions[t].state = "none" /\ transactions'[t].state = "active")
    => \A u \in CommittedTransactions :
         transactions[u].commit_timestamp <= transactions'[t].start_timestamp

\* A commit timestamp, once given, stays with its transaction.
KeepsTimestamp(t) ==
  t \in CommittedTransactions
    => /\ transactions'[t].state = "committed"
       /\ transactions'[t].commit_timestamp = transactions[t].commit_timestamp

\* C31: commit timestamps strictly increase with commit order: the commit the
\* engine serializes later receives the strictly larger timestamp, no two
\* transactions share a commit timestamp, and a transaction beginning after a
\* commit gets a start_timestamp >= that commit's timestamp.
C31_CommitTimestamps ==
  [][/\ \A t \in TxIds : CommitsLater(t) /\ BeginsAfter(t) /\ KeepsTimestamp(t)
     /\ \A t \in CommittedTransactions', u \in CommittedTransactions' :
          t # u => transactions'[t].commit_timestamp
                     # transactions'[u].commit_timestamp]_vars

\* C31: two transactions are committed and a third one began after both.
C31_Witness ==
  /\ \E t \in CommittedTransactions, u \in CommittedTransactions : t # u
  /\ \E t \in ActiveTransactions :
       \A u \in CommittedTransactions :
         transactions[u].commit_timestamp <= transactions[t].start_timestamp
  /\ ev.op = "Begin"

\* C31: no two committed transactions share a commit timestamp, and the last
\* commit timestamp is the largest one given.
C31_DistinctTimestamps ==
  /\ \A t \in CommittedTransactions, u \in CommittedTransactions :
       t # u => transactions[t].commit_timestamp
                  # transactions[u].commit_timestamp
  /\ \A t \in CommittedTransactions :
       transactions[t].commit_timestamp <= last_commit_timestamp_

(***************************************************************************)
(* Properties of the writes to replica_state_.                             *)
(***************************************************************************)
\* The functions that store to replica_state_.
StateWriters ==
  {"InitializeClient", "TryInitializeClient", "StartTransactionReplication",
   "IfStreamingTransaction", "FinalizeTransactionReplicationInternal",
   "RecoverySnapshot", "RecoveryWals", "RecoveryFinalSnapshot",
   "ReplicateCurrentWal", "RecoverReplica"}

\* A step that changes replica_state_ is one of a function that stores to it,
\* and the store is made while client_lock_ is held.
StoresUnderLock ==
  replica_state_' # replica_state_
    => /\ ev'.op \in StateWriters
       /\ ev'.from = replica_state_
       /\ "replica_state_.store" \in LockedCalls(ev')

C32_WorkerStoresDuringCommit ==
  /\ m_pc \in {"started", "appended", "ended"}
  /\ ev.op \in {"FinalizeTransactionReplicationInternal", "RecoverReplica",
                "InitializeClient"}
  /\ ev.from # replica_state_
  /\ "replica_state_.store" \in LockedCalls(ev)

(***************************************************************************)
(* Properties of replica_stream_.                                          *)
(***************************************************************************)
\* A finalization of the open stream is still to come: the committing thread
\* is inside the transaction, waits for its finalization, or the finalize
\* task is queued.
FinalizationPending ==
  \/ m_pc \in {"started", "appended", "ended", "waiting"}
  \/ \E i \in 1..Len(thread_pool_) :
       thread_pool_[i].type \in {"finalize", "finalize_notify"}

\* C33: whenever StartTransactionReplication finds the state READY no replica
\* stream is open: CHECK(!replica_stream_) holds after any sequence of
\* transaction starts, appends, finalizations, RPC failures, reconnect tasks
\* and recovery tasks.
C33_CheckHolds ==
  ~(ev.op = "StartTransactionReplication" /\ ev.from = READY
      /\ ev.sched = "crash")

\* C33, the equivalent form: a replica stream exists only while the state is
\* REPLICATING or a finalization of that stream is still pending.
C33_StreamOnlyWhileReplicating ==
  replica_stream_.open => (replica_state_ = REPLICATING \/ FinalizationPending)

\* C33: the state is READY between two commits with a stream still engaged.
C33_StaleStream ==
  ~(constructed /\ replica_state_ = READY /\ m_pc = "idle"
      /\ replica_stream_.open)

(***************************************************************************)
(* Properties of the tasks of one client.                                  *)
(***************************************************************************)
\* The worker runs RecoverReplica.
RecoveryRunning == pc[Worker] \in {"rec_get", "rec_step", "rec_curwal"}

\* The worker runs a reconnect task: the RPC client was aborted and the
\* handshake is under way.
ReconnectRunning == pc[Worker] \in {"hs_start", "hs_align"}

\* The RecoverReplica tasks that are queued.
RecoveriesQueued ==
  {i \in 1..Len(thread_pool_) : thread_pool_[i].type = "recover"}

\* C34, first half: at most one RecoverReplica task is running or queued.
C34_OneRecovery ==
  Cardinality(RecoveriesQueued) + (IF RecoveryRunning THEN 1 ELSE 0) <= 1

\* C34, second half: no reconnect task runs concurrently with a
\* RecoverReplica task or with an open transaction stream of the client.
C34_ReconnectAlone ==
  ReconnectRunning => (~RecoveryRunning /\ ~replica_stream_.open)

\* C34: for one replication client at most one RecoverReplica task is running
\* or queued at any time, and no reconnect task runs concurrently with a
\* RecoverReplica task or with an open transaction stream of the same client.
C34_TasksExclusive == C34_OneRecovery /\ C34_ReconnectAlone

\* C34: a reconnect task runs while the committing thread streams a
\* transaction that began after the task was queued.
C34_ReconnectDuringStream ==
  ~(/\ ReconnectRunning
    /\ replica_stream_.open
    /\ replica_state_ = REPLICATING
    /\ m_pc \in {"started", "appended"})

(***************************************************************************)
(* Properties of the end of a RecoverReplica iteration.                    *)
(***************************************************************************)
\* The step is the test at the end of an iteration of RecoverReplica.
RecoveryChecked == ev'.op = "RecoverReplica" /\ ev'.sched \in {"done", "again"}

\* READY is stored exactly when replica_commit equals last_commit_timestamp_,
\* both read in the step that holds client_lock_; otherwise the worker goes
\* back to GetRecoverySteps with the state as it was.
ReadyOnlyWhenEqual ==
  RecoveryChecked =>
    /\ "last_commit_timestamp_.load" \in LockedCalls(ev')
    /\ IF w_rc = last_commit_timestamp_
         THEN /\ ev'.sched = "done"
              /\ replica_state_' = READY
              /\ "replica_state_.store" \in LockedCalls(ev')
              /\ pc'[Worker] = "idle"
       ELSE /\ ev'.sched = "again"
            /\ replica_state_' = replica_state_
            /\ pc'[Worker] = "rec_get"

\* C35, the test: RecoverReplica sets the state to READY only when, checked
\* while holding the client lock, replica_commit equals the main's
\* last_commit_timestamp; otherwise it recomputes the recovery steps.
C35_ReadyOnlyWhenEqual == [][ReadyOnlyWhenEqual]_vars

\* RecoverReplica has just stored READY.
ReadyByRecovery ==
  ev.op = "RecoverReplica" /\ ev.sched = "done" /\ replica_state_ = READY

\* C35: RecoverReplica sets the state to READY only when the replica's last
\* reported commit timestamp equals the main's last_commit_timestamp, checked
\* under the client lock, so that no commit made between the last recovery
\* step and the READY transition is missed: no commit that was not streamed
\* is in progress when READY is stored.
C35_NoCommitMissed ==
  (constructed /\ ReadyByRecovery)
    => (m_pc = "idle" /\ w_rc = last_commit_timestamp_)

\* C35: the commit that was in progress when RecoverReplica stored READY
\* never ends with the replica READY and behind while no RPC has failed and
\* no task is left to catch up.
C35_ReadyAndBehind ==
  [][~(/\ constructed /\ ReadyByRecovery
       /\ m_pc = "finalized" /\ m_pc' = "idle"
       /\ replica_state_' = READY /\ ~replica_stream_'.open
       /\ thread_pool_' = <<>> /\ pc'[Worker] = "idle"
       /\ failures' = 0
       /\ r_commit' < last_commit_timestamp_')]_vars

(***************************************************************************)
(* Properties of the timeout tasks.                                        *)
(***************************************************************************)
\* The timeout task of the transaction whose finalization the committing
\* thread waits for is the one queued last: it is still queued, or it is the
\* one the timeout thread runs when no other is queued.
CurrentTimeoutTaskQueued == m_pc = "waiting" /\ timeout_pool > 0

\* The step in which a timeout task ends its wait loop with `active` still
\* set: it is the one that wakes the committing thread.
TimeoutWakes ==
  /\ tt_pc = "waiting" /\ tt_pc' = "idle"
  /\ m_pc = "waiting" /\ td_active

\* The step in which the committing thread demotes the replica.
Demotes == Wakes /\ mode_ = SYNC /\ mode_' = ASYNC

\* C36, first half: the committing thread is never woken by a timeout task
\* belonging to an earlier transaction.
C36_WokenByOwnTimeout == [][TimeoutWakes => ~CurrentTimeoutTaskQueued]_vars

\* C36, second half: when the committing thread finds the state still
\* REPLICATING after waking, the timeout task of the current transaction has
\* finished.
C36_DemotedAfterOwnTimeout ==
  [][Demotes => (timeout_pool = 0 /\ tt_pc = "idle" /\ td_finished)]_vars

\* C36: a SYNC replica is demoted to ASYNC only if the timeout really elapsed
\* before its finalize task completed: the main thread is never woken by a
\* timeout task belonging to an earlier transaction, and when it observes the
\* state still REPLICATING after waking, the timeout task of the current
\* transaction has finished.
C36_DemotionByTimeout ==
  [][/\ TimeoutWakes => ~CurrentTimeoutTaskQueued
     /\ Demotes => (timeout_pool = 0 /\ tt_pc = "idle" /\ td_finished)]_vars

(***************************************************************************)
(* Properties of a missed transaction.  FairSpec is Spec with the          *)
(* scheduling of StableSpec: RPCs may fail, the threads run.               *)
(***************************************************************************)
FairSpec == Init /\ [][Next]_vars /\ Fairness

\* StartTransactionReplication has just found REPLICATING and stored RECOVERY.
TransactionMissed ==
  /\ ev.op = "StartTransactionReplication" /\ ev.from = REPLICATING
  /\ replica_state_ = RECOVERY

\* A finalization has just queued a RecoverReplica task, or stored INVALID
\* and queued a reconnect task.
FinalizationCaughtUp ==
  /\ ev.op = "FinalizeTransactionReplicationInternal"
  /\ \/ ev.sched = "recover" /\ replica_state_ = RECOVERY
     \/ ev.sched = "reconnect" /\ replica_state_ = INVALID

\* A task that will leave RECOVERY is queued or running.
RecoveryOutstanding ==
  \/ pc[Worker] # "idle"
  \/ \E i \in 1..Len(thread_pool_) :
       thread_pool_[i].type \in {"recover", "reconnect", "finalize",
                                 "finalize_notify"}

\* C37, second half: the client never stays in RECOVERY with no recovery or
\* reconnect task (or the finalization that queues one) outstanding.
C37_RecoveryOutstanding ==
  (constructed /\ ~crashed /\ replica_state_ = RECOVERY) => RecoveryOutstanding

TimeoutBranch ==
  /\ ~crashed /\ m_pc = "ended"
  /\ constructed /\ replica_state_ = REPLICATING
  /\ mode_ # ASYNC /\ timeout_

\* The two assertions of the branch.
TimeoutBranchChecks == mode_ = SYNC /\ timeout_dispatcher_

\* The timeout and the dispatcher are installed by the constructor only, when
\* a timeout is configured and the handshake did not leave INVALID.
InstalledAtConstruction ==
  /\ (~timeout_ /\ timeout_')
       => /\ ~constructed /\ constructed'
          /\ config_timeout /\ replica_state_ # INVALID
          /\ timeout_dispatcher_'
  /\ (~timeout_dispatcher_ /\ timeout_dispatcher_')
       => /\ ~constructed /\ constructed'
          /\ config_timeout /\ replica_state_ # INVALID
          /\ timeout_'
  /\ (~constructed /\ constructed')
       => (timeout_' <=> (config_timeout /\ replica_state_ # INVALID))

\* The timeout is removed by the demotion, the dispatcher by the task the
\* demotion queues.
RemovedByDemotion ==
  /\ (timeout_ /\ ~timeout_')
       => /\ Wakes /\ replica_state_ = REPLICATING
          /\ mode_ = SYNC /\ mode_' = ASYNC
          /\ thread_pool_' = Append(thread_pool_, ResetDispatcherTask)
  /\ (timeout_dispatcher_ /\ ~timeout_dispatcher_')
       => /\ thread_pool_ # <<>> /\ Head(thread_pool_) = ResetDispatcherTask
          /\ mode_ = ASYNC /\ ~timeout_

\* C38: whenever FinalizeTransactionReplication takes the timeout branch the
\* mode is SYNC and the timeout dispatcher exists, so both assertions hold in
\* every interleaving; the timeout and the dispatcher are installed at
\* construction only when a timeout is configured and the initial handshake
\* did not leave the state INVALID, and they are removed only by demotion.
C38_TimeoutBranch ==
  /\ [](TimeoutBranch => TimeoutBranchChecks)
  /\ []~(ev.op = "FinalizeTransactionReplication" /\ ev.sched = "crash")
  /\ [][InstalledAtConstruction /\ RemovedByDemotion]_vars

\* The timeout branch has been taken with both assertions true and the
\* committing thread waits.
C38_Witness ==
  /\ ev.op = "FinalizeTransactionReplication"
  /\ ev.sched = "finalize_notify"
  /\ m_pc = "waiting"
  /\ TimeoutBranchChecks

\* The dispatcher has been removed by the task of a demotion.
C38_DispatcherRemoved ==
  /\ ev.op = "ResetDispatcherTask"
  /\ ~timeout_dispatcher_ /\ ~timeout_ /\ mode_ = ASYNC /\ config_timeout

(***************************************************************************)
(* Properties of SpinLock.                                                 *)
(***************************************************************************)
\* The threads between a returned lock() and its unlock().
Holders == {t \in SpinThreads : spinlock.at[t] = "holding"}

\* The thread is inside lock().
InLock(t) == spinlock.at[t] \in {"testing", "sleeping"}

\* The flag is set exactly while a thread holds the lock.
FlagOfHolder == spinlock.lock_flag <=> Holders # {}

\* C39: SpinLock provides mutual exclusion: in any interleaving of threads
\* calling lock() and unlock() at most one thread is between a returned lock()
\* and its matching unlock(), and a thread waiting in lock() acquires the lock
\* after it is released if no other thread takes it first.
C39_MutualExclusion ==
  /\ [](Cardinality(Holders) <= 1 /\ FlagOfHolder)
  /\ \A t \in SpinThreads :
       (InLock(t) /\ ~spinlock.lock_flag)
         ~> (t \in Holders \/ \E u \in SpinThreads \ {t} : u \in Holders)

\* One thread holds the lock while the others wait in lock(), one of them
\* asleep.
C39_Witness ==
  /\ \E t \in SpinThreads :
       /\ Holders = {t}
       /\ \A u \in SpinThreads \ {t} : InLock(u)
  /\ \E u \in SpinThreads : spinlock.at[u] = "sleeping"

\* The lock was released while a thread sleeps in lock().
C39_ReleasedWhileWaiting ==
  /\ ~spinlock.lock_flag
  /\ \E u \in SpinThreads : spinlock.at[u] = "sleeping"

(***************************************************************************)
(* Properties of the file locker of RecoverReplica.                        *)
(***************************************************************************)
\* The files a recovery step names.
StepFiles(step) ==
  CASE step.type = "RecoverySnapshot" -> {SnapshotPath(step.ts)}
    [] step.type = "RecoveryFinalSnapshot" -> {SnapshotPath(step.ts)}
    [] step.type = "RecoveryWals" -> WalPaths(step.wals)
    [] step.type = "RecoveryCurrentWal" -> {}

\* The files named by the steps the iteration has still to run.
PendingFiles == UNION {StepFiles(w_steps[i]) : i \in 1..Len(w_steps)}

\* The snapshot and finalized WAL files on disk: those the directories list
\* and those whose deletion was put off.
OnDisk ==
  {SnapshotPath(ts) : ts \in snapshot_files}
    \cup WalPaths(wal_files) \cup file_retainer_.files_for_deletion

\* The worker is between GetRecoverySteps and the end of the iteration.
InIteration == pc[Worker] \in {"rec_step", "rec_curwal"}

\* The locker's files are released only at the end of an iteration, when
\* every step has run.
HeldToTheEnd ==
  (file_retainer_.locked # {} /\ file_retainer_'.locked # file_retainer_.locked)
    => (pc[Worker] = "rec_step" /\ Len(w_steps) = 0)

\* C40: every snapshot file and finalized WAL file named in the recovery steps
\* returned by GetRecoverySteps has been added to the file locker taken at the
\* start of that RecoverReplica iteration, and the locker is held until all
\* steps of the iteration have run, so a file being transferred to a replica
\* cannot be deleted by the snapshot and WAL cleanup during the transfer.
C40_FilesLocked ==
  /\ [](InIteration => (PendingFiles \subseteq file_retainer_.locked
                        /\ PendingFiles \subseteq OnDisk))
  /\ [](file_retainer_.locked \subseteq OnDisk)
  /\ [][HeldToTheEnd]_vars

\* A snapshot was made while the worker has still to transfer a WAL file the
\* snapshot made obsolete: the file is kept and its deletion put off.
C40_Witness ==
  /\ InIteration
  /\ \E f \in PendingFiles :
       f.kind = "wal" /\ f \in file_retainer_.files_for_deletion

\* The same for a snapshot file that a newer snapshot replaced.
C40_SnapshotKept ==
  /\ InIteration
  /\ \E f \in PendingFiles :
       f.kind = "snapshot" /\ f \in file_retainer_.files_for_deletion

====
